---- MODULE Spec2Model ----
(***************************************************************************)
(* ghpr: a working tree of markdown files (description, comment files,     *)
(* draft comments) under git, kept in sync with a GitHub PR/Issue and an   *)
(* optional gist mirror by the commands push, pull and diff.               *)
(*                                                                         *)
(* Text is modelled line by line.  A string is the sequence of lines that  *)
(* Python's  s.split('\n')  returns (never empty: '' is one empty line).   *)
(* A line is a tuple of strings whose first element is its kind:           *)
(*   <<"t", s>>         a line of plain text s                             *)
(*   <<"h1ref", title>> '# [owner/repo#number] title', with or without  *)
(*                      '(url)' after the bracket                          *)
(*   <<"h1", title>>    '# title'                                          *)
(*   <<"ldef">>         '[owner/repo#number]: https://github.com/...'      *)
(*   <<"hid", seg...>>  '<!-- Synced with URL via [ghpr](...) -->'         *)
(*   <<"vis", seg...>>  'Synced with [gist](URL) via [ghpr](...)'          *)
(* where URL is https://gist.github.com/ followed by the path segments     *)
(* seg joined by '/'.                                                      *)
(***************************************************************************)
EXTENDS Integers, Sequences, FiniteSets, TLC

\* ------------------------------------------------------------------ bounds
\* number of edits made by the user or by other parties on the remote
MaxEnvSteps == 2
\* number of ghpr commands (push, pull, diff) run
MaxCommands == 1
\* number of external calls that fail during one command
MaxFaults == 1
\* highest comment id the server hands out
MaxServerId == 4

\* ------------------------------------------------------------------ text
T(s) == <<"t", s>>
EmptyBody == <<T("")>>

\* the plain texts of the model are "", " ", "a", "b", " a", "a ", "a\r",
\* "a\r\r" and "---": empty, whitespace only, words, words with leading or
\* trailing whitespace or one or two trailing carriage returns, and a rule

\* str.strip(), str.rstrip(), str.lstrip() on one line of text
RStripText(s) ==
    CASE s = " " -> "" [] s = "a " -> "a" [] s = "a\r" -> "a" [] s = "a\r\r" -> "a"
      [] OTHER -> s
LStripText(s) == CASE s = " " -> "" [] s = " a" -> "a" [] OTHER -> s
StripText(s) == LStripText(RStripText(s))

\* line.strip() == ''
IsBlankLine(l) == l[1] = "t" /\ StripText(l[2]) = ""
RStripLine(l) == IF l[1] = "t" THEN T(RStripText(l[2])) ELSE l
LStripLine(l) == IF l[1] = "t" THEN T(LStripText(l[2])) ELSE l
StripLine(l) == IF l[1] = "t" THEN T(StripText(l[2])) ELSE l

\* s.rstrip() on a multi-line string: trailing whitespace-only lines go, and
\* the last remaining line loses its trailing whitespace
RStripBody(b) ==
    LET keep == {i \in 1..Len(b) : ~IsBlankLine(b[i])}
    IN IF keep = {} THEN EmptyBody
       ELSE LET n == CHOOSE i \in keep : \A j \in keep : j <= i
            IN SubSeq(b, 1, n - 1) \o <<RStripLine(b[n])>>

\* s.lstrip() on a multi-line string
LStripBody(b) ==
    LET keep == {i \in 1..Len(b) : ~IsBlankLine(b[i])}
    IN IF keep = {} THEN EmptyBody
       ELSE LET n == CHOOSE i \in keep : \A j \in keep : i <= j
            IN <<LStripLine(b[n])>> \o SubSeq(b, n + 1, Len(b))

\* s.replace('\r\n', '\n'): a carriage return that ends a line other than the
\* last one is dropped, and only one of two
NormalizeCRLF(b) ==
    [i \in 1..Len(b) |->
        IF i < Len(b) /\ b[i] = T("a\r") THEN T("a")
        ELSE IF i < Len(b) /\ b[i] = T("a\r\r") THEN T("a\r")
        ELSE b[i]]

\* ------------------------------------------------------------------ gist URLs
\* path segments after https://gist.github.com/ ; a segment is hexadecimal
\* ([a-f0-9]+) or starts with a character that is not
HexSegments == {"a1", "c9", "e5", "7"}
IsHex(seg) == seg \in HexSegments

\* GIST_ID_PATTERN.search(url): gist\.github\.com[:/]([a-f0-9]{20,32}), the
\* gist id when the segment after the host is 20 to 32 hexadecimal
\* characters long.  "a1" and "e5" stand for ids of that length and "7" for
\* the short id of an old gist; no URL given to it starts with a revision.
GistIdSegments == {"a1", "e5"}
GIST_ID_PATTERN(url) ==
    IF Len(url) >= 1 /\ url[1] \in GistIdSegments THEN <<url[1]>> ELSE <<>>

\* GIST_URL_WITH_USER_PATTERN.search(url): (?:[^/]+/)?([a-f0-9]+)(?:/([a-f0-9]+))?
\* the optional user segment is tried first (greedy), so a first segment that
\* is followed by a hexadecimal one is taken as the user
GIST_URL_WITH_USER_PATTERN(url) ==
    IF Len(url) >= 2 /\ IsHex(url[2])
    THEN [ok |-> TRUE, id |-> url[2],
          rev |-> IF Len(url) >= 3 /\ IsHex(url[3]) THEN url[3] ELSE ""]
    ELSE IF Len(url) >= 1 /\ IsHex(url[1])
    THEN [ok |-> TRUE, id |-> url[1], rev |-> ""]
    ELSE [ok |-> FALSE, id |-> "", rev |-> ""]

\* the URL captured by  https://gist\.github\.com/[a-f0-9]+(?:/[a-f0-9]+)?
\* at the start of url: <<>> when there is no match
HexUrlPrefix(url) ==
    IF Len(url) >= 1 /\ IsHex(url[1])
    THEN IF Len(url) >= 2 /\ IsHex(url[2]) THEN SubSeq(url, 1, 2) ELSE SubSeq(url, 1, 1)
    ELSE <<>>

\* GIST_FOOTER_VISIBLE_PATTERN.search(line): the URL must be closed by ')'
\* right after the one or two hexadecimal segments
GIST_FOOTER_VISIBLE_PATTERN(line) ==
    LET url == SubSeq(line, 2, Len(line))
    IN IF line[1] = "vis" /\ HexUrlPrefix(url) = url THEN url ELSE <<>>

\* GIST_FOOTER_HIDDEN_PATTERN.match(line): a prefix match
GIST_FOOTER_HIDDEN_PATTERN(line) ==
    IF line[1] = "hid" THEN HexUrlPrefix(SubSeq(line, 2, Len(line))) ELSE <<>>

\* ------------------------------------------------------------------ footer codec
extract_gist_footer(body) ==
    LET n == Len(body)
        none == [body |-> body, url |-> <<>>]
        hidden ==
            IF body[n][1] = "hid" /\ GIST_FOOTER_HIDDEN_PATTERN(body[n]) # <<>>
            THEN [body |-> RStripBody(SubSeq(body, 1, n - 1)),
                  url |-> GIST_FOOTER_HIDDEN_PATTERN(body[n])]
            ELSE none
        visible(k) ==
            IF GIST_FOOTER_VISIBLE_PATTERN(body[n]) # <<>>
            THEN [body |-> RStripBody(SubSeq(body, 1, n - k)),
                  url |-> GIST_FOOTER_VISIBLE_PATTERN(body[n])]
            ELSE hidden
    IN IF body = EmptyBody THEN none
       ELSE IF n >= 3 /\ body[n][1] = "vis"
       THEN IF n >= 4 /\ IsBlankLine(body[n-1]) /\ StripLine(body[n-2]) = T("---")
                /\ IsBlankLine(body[n-3])
            THEN visible(4)
            ELSE IF StripLine(body[n-1]) = T("---") /\ IsBlankLine(body[n-2])
            THEN visible(3)
            ELSE hidden
       ELSE hidden

\* add_gist_footer without the removal of the footer already there
add_gist_footer_appending(body, gist_url, visible) ==
    LET footer == IF visible
                  THEN <<T(""), T("---"), T(""), <<"vis">> \o gist_url>>
                  ELSE <<  <<"hid">> \o gist_url  >>
    IN IF body # EmptyBody
       THEN body \o <<T("")>> \o footer
       ELSE footer

add_gist_footer(body, gist_url, visible) ==
    LET body_without_footer == extract_gist_footer(body).body
        m == GIST_URL_WITH_USER_PATTERN(gist_url)
        gist_link == IF m.ok
                     THEN IF m.rev # "" THEN <<m.id, m.rev>> ELSE <<m.id>>
                     ELSE gist_url
        footer == IF visible
                  THEN <<T(""), T("---"), T(""), <<"vis">> \o gist_link>>
                  ELSE <<  <<"hid">> \o gist_url  >>
    IN IF body_without_footer # EmptyBody
       THEN body_without_footer \o <<T("")>> \o footer
       ELSE footer

\* ------------------------------------------------------------------ description file
H1Ref(title) == <<"h1ref", title>>
LinkDef == <<"ldef">>

extract_title_from_first_line(first_line) ==
    CASE first_line[1] \in {"h1ref", "h1"} -> StripText(first_line[2])
      [] first_line[1] = "t" -> StripText(first_line[2])
      [] OTHER -> first_line[1]

\* body.endswith('\n') and body.endswith('\n\n')
EndsWithNewline(body) == Len(body) >= 2 /\ body[Len(body)] = T("")
EndsWithTwoNewlines(body) ==
    Len(body) >= 3 /\ body[Len(body)] = T("") /\ body[Len(body) - 1] = T("")

\* write_description_with_link_ref without the look for a link definition
\* in the body
write_description_with_link_ref_appending(title, body) ==
    LET hdr == IF body # EmptyBody THEN <<H1Ref(title), T("")>> \o body
               ELSE <<H1Ref(title), T("")>>
        nl1 == IF body # EmptyBody /\ ~EndsWithNewline(body) THEN hdr \o <<T("")>> ELSE hdr
        nl2 == IF body = EmptyBody \/ ~EndsWithTwoNewlines(body) THEN nl1 \o <<T("")>> ELSE nl1
    IN SubSeq(nl2, 1, Len(nl2) - 1) \o <<LinkDef, T("")>>

\* the text write_description_with_link_ref writes for (title, body)
write_description_with_link_ref(title, body) ==
    LET link_exists == body # EmptyBody /\ \E i \in 1..Len(body) : body[i] = LinkDef
        hdr == IF body # EmptyBody THEN <<H1Ref(title), T("")>> \o body
               ELSE <<H1Ref(title), T("")>>
        nl1 == IF body # EmptyBody /\ ~EndsWithNewline(body) THEN hdr \o <<T("")>> ELSE hdr
        nl2 == IF body = EmptyBody \/ ~EndsWithTwoNewlines(body) THEN nl1 \o <<T("")>> ELSE nl1
    IN IF link_exists THEN hdr
       ELSE SubSeq(nl2, 1, Len(nl2) - 1) \o <<LinkDef, T("")>>

\* push and diff parse the committed description text themselves: the title
\* from the first line, the body from the rest with leading blank lines
\* skipped, right-trimmed
ParseDescription(content) ==
    LET rest == Tail(content)
        keep == {i \in 1..Len(rest) : ~IsBlankLine(rest[i])}
        first == CHOOSE i \in keep : \A j \in keep : i <= j
    IN [title |-> extract_title_from_first_line(StripLine(content[1])),
        body |-> IF keep = {} THEN EmptyBody
                 ELSE RStripBody(SubSeq(rest, first, Len(rest)))]

\* read_description_file on the text of a description file.  Under a
\* link-reference header every link-definition line is left out of the
\* body, leading and trailing blank lines go and the rest is right-trimmed;
\* under a bare '# Title' only the leading blank lines go; any other first
\* line yields (None, None).
read_description_file(content) ==
    LET rest == Tail(content)
        body_lines == IF content[1][1] = "h1ref"
                      THEN SelectSeq(rest, LAMBDA line : line # LinkDef)
                      ELSE rest
        keep == {i \in 1..Len(body_lines) : ~IsBlankLine(body_lines[i])}
        first == CHOOSE i \in keep : \A j \in keep : i <= j
    IN IF content[1][1] \notin {"h1ref", "h1"}
       THEN [ok |-> FALSE, title |-> "", body |-> EmptyBody]
       ELSE [ok |-> TRUE,
             title |-> StripText(content[1][2]),
             body |-> IF keep = {} THEN EmptyBody
                      ELSE RStripBody(SubSeq(body_lines, first, Len(body_lines)))]

\* ------------------------------------------------------------------ comment files
\* A comment file is named z{id}-{author}.md (tag = author) or z{id}.md
\* (tag = ""), and holds metadata lines, a blank line and the body.  It is
\* kept as its author metadata ("" when the file has no author line) and
\* the text after the metadata block.
CurrentUser == "alice"

FileKey(id, tag) == [id |-> id, tag |-> tag]

write_comment_file(comment_id, author, body) ==
    [key |-> FileKey(comment_id, author),
     file |-> [author |-> author, body |-> body]]

read_comment_file(file) ==
    [author |-> file.author, body |-> LStripBody(file.body)]

get_comment_id_from_filename(key) == key.id

\* sorted(glob('z*.md')): by id, z{id}-{author}.md before z{id}.md
FileRank(key) ==
    key.id * 4 + (CASE key.tag = "alice" -> 1 [] key.tag = "bob" -> 2 [] OTHER -> 3)

RECURSIVE SortedKeys(_)
SortedKeys(keys) ==
    IF keys = {} THEN <<>>
    ELSE LET k == CHOOSE x \in keys : \A y \in keys : FileRank(x) <= FileRank(y)
         IN <<k>> \o SortedKeys(keys \ {k})

\* a function with one more (or one overwritten) entry, and with one removed
Put(f, k, v) == [x \in DOMAIN f \cup {k} |-> IF x = k THEN v ELSE f[x]]
Drop(f, k) == [x \in DOMAIN f \ {k} |-> f[x]]

\* ------------------------------------------------------------------ state
VARIABLES
    wt,        \* working tree: [desc, drafts, comments, other]
    head,      \* the tree of the HEAD commit, same shape
    cfg,       \* git config (pr.owner, pr.repo, pr.number, pr.type, pr.gist)
               \* and where the tree sits: the number its directory is
               \* named by (dir) and the GitHub repository of the checkout
               \* that encloses it (origin)
    remote,    \* the PR/Issue on GitHub: [title, body, comments]
    mirror,    \* the gist: [ex, content]
    nextId,    \* the id the server gives the next comment
    calls,     \* the mutating external calls of the last command, in order
    result,    \* what the last command did and reported
    envSteps,  \* edits made so far by the user and by other parties
    commands   \* push, pull and diff commands run so far

vars == <<wt, head, cfg, remote, mirror, nextId, calls, result, envSteps, commands>>

NewGistId == "a1"
Revision == "c9"

\* the item every tree of the model is a clone of: owner/repo#number
Item == [owner |-> "o", repo |-> "r", number |-> "12"]

\* the six variables a command reads and writes, as one record
St == [wt |-> wt, head |-> head, cfg |-> cfg, remote |-> remote,
       mirror |-> mirror, nextId |-> nextId]

\* desc: the description file {repo}#{number}.md, <<>> when there is none;
\* drafts and comments: the new*.md and z*.md files by name; other: the names
\* of the files that are none of these
EmptyTree == [desc |-> <<>>, drafts |-> <<>>, comments |-> <<>>, other |-> {}]

\* one external call: op, whether it succeeded, the comment id (0: none),
\* the title and the body sent
Call(op, ok, id, title, body) ==
    [op |-> op, ok |-> ok, id |-> id, title |-> title, body |-> body]

\* an external call that can fail, as a fault name: <<op, n>>
Fault(op, n) == <<op, n>>

\* the one member of a set of one: a value worked out once and then named
Only(S) == CHOOSE x \in S : TRUE

\* ------------------------------------------------------------------ identity
\* all([owner, repo, number])
all(info) == info.owner # "" /\ info.repo # "" /\ info.number # ""

\* get_pr_info_from_path() in a tree with git config and location c, where
\* first_line is <<line>> for the first line of a file DESCRIPTION.md in the
\* directory and <<>> when there is no such file: the triple it returns
\* ("" for None) and the directory it leaves the process in.  The git
\* config wins when it holds all three; else a directory named by a number
\* gives the number, the process moves to the enclosing checkout (chdir)
\* and the first GitHub remote there gives owner and repo; only when no
\* directory name gives a number is DESCRIPTION.md looked at.
get_pr_info_from_path(c, first_line) ==
    IF c.owner # "" /\ c.repo # "" /\ c.number # ""
    THEN [owner |-> c.owner, repo |-> c.repo, number |-> c.number, cwd |-> "tree"]
    ELSE IF c.dir = ""
    THEN IF first_line # <<>> /\ first_line[1][1] = "h1ref"
         THEN [owner |-> Item.owner, repo |-> Item.repo, number |-> Item.number,
               cwd |-> "tree"]
         ELSE [owner |-> "", repo |-> "", number |-> "", cwd |-> "tree"]
    ELSE IF c.origin # <<>>
    THEN [owner |-> c.origin[1], repo |-> c.origin[2], number |-> c.dir,
          cwd |-> "parent"]
    ELSE [owner |-> "", repo |-> "", number |-> c.dir, cwd |-> "parent"]

\* the file name DESCRIPTION.md, as a member of a tree's other files
DescriptionMd == <<"DESCRIPTION", "md">>

\* the first line of DESCRIPTION.md in the tree of s: clone and pull name the
\* description file {repo}#{number}.md, so the only such file is one the
\* user wrote for create, in the plain format (a "# title" line)
description_md(s) == IF DescriptionMd \in s.wt.other THEN <<<<"h1", "T1">>>> ELSE <<>>

\* a repository whose name starts with 'new'
NewRepo == "newr"

\* the repository the tree's description file is named after: the one clone
\* recorded as pr.repo (clone.py 89, 103), Item.repo where the config has
\* lost it
description_repo(s) == IF s.cfg.repo = "" THEN Item.repo ELSE s.cfg.repo

\* get_expected_description_filename(owner, repo, number) is the name of
\* the tree's description file
names_description(s, item) ==
    item.repo = description_repo(s) /\ item.number = Item.number

\* ------------------------------------------------------------------ the server
\* get_item_metadata: the item with its body's line endings normalized
get_item_metadata(s) ==
    [title |-> s.remote.title, body |-> NormalizeCRLF(s.remote.body)]

\* faulty variant of get_item_comments: every id is answered with a comment
get_item_comments_phantom(s, faults) ==
    [id \in 1..MaxServerId |->
        IF id \in DOMAIN s.remote.comments
        THEN [author |-> s.remote.comments[id].author,
              body |-> NormalizeCRLF(s.remote.comments[id].body)]
        ELSE [author |-> "bob", body |-> EmptyBody]]

\* get_item_comments: the comments with their bodies' line endings
\* normalized; no comments at all when the call fails
get_item_comments(s, faults) ==
    IF Fault("fetch_comments", 0) \in faults THEN <<>>
    ELSE [id \in DOMAIN s.remote.comments |->
            [author |-> s.remote.comments[id].author,
             body |-> NormalizeCRLF(s.remote.comments[id].body)]]

\* what the server stores for a posted body: it as sent, it trimmed, or it
\* with CRLF line ends
NormKinds == {"same", "trim", "crlf"}
ServerStore(norm, body) ==
    CASE norm = "trim" -> RStripBody(LStripBody(body))
      [] norm = "crlf" -> [i \in 1..Len(body) |->
                             IF i < Len(body) /\ body[i] = T("a") THEN T("a\r") ELSE body[i]]
      [] OTHER -> body

\* ------------------------------------------------------------------ push
\* faulty variant of sync_to_gist: a failed update still answers with a URL
sync_to_gist_unchecked(s, item, content, faults) ==
    [s |-> s, url |-> <<NewGistId>>, raised |-> FALSE,
     calls |-> <<Call("gist_update", Fault("gist_meta", 0) \notin faults, 0, "", <<>>)>>]

\* sync_to_gist(owner, repo, number, content, return_url=True): the state
\* after it, the URL it returned (<<>>: None), whether it raised, its calls
sync_to_gist(s, item, content, faults) ==
    IF s.cfg.gist # <<>>
    THEN \* update the existing gist: metadata, commit, git push, revision
         IF Fault("gist_meta", 0) \in faults
         THEN [s |-> s, url |-> <<>>, raised |-> TRUE,
               calls |-> <<Call("gist_update", FALSE, 0, "", <<>>)>>]
         ELSE LET \* git add {repo}#{number}.md; git commit: a failure is
                  \* passed over when nothing is staged
                  s1 == IF names_description(s, item)
                        THEN [s EXCEPT !.head.desc = s.wt.desc] ELSE s
                  c1 == <<Call("gist_update", TRUE, 0, "", <<>>)>>
              IN IF Fault("gist_push", 0) \in faults
                 THEN [s |-> s1, url |-> <<>>, raised |-> TRUE,
                       calls |-> Append(c1, Call("gist_push", FALSE, 0, "", <<>>))]
                 ELSE LET s2 == [s1 EXCEPT !.mirror = [ex |-> TRUE, content |-> s1.head.desc]]
                          c2 == Append(c1, Call("gist_push", TRUE, 0, "", <<>>))
                      IN IF Fault("gist_rev", 0) \in faults
                         THEN [s |-> s2, url |-> <<>>, raised |-> TRUE, calls |-> c2]
                         ELSE [s |-> s2,
                               url |-> IF Fault("gist_norev", 0) \in faults
                                       THEN <<s.cfg.gist[1]>>
                                       ELSE <<s.cfg.gist[1], Revision>>,
                               raised |-> FALSE, calls |-> c2]
    ELSE \* create a gist: the local description file is rewritten first
         LET \* open('{repo}#{number}.md', 'w').write(content)
             s1 == IF names_description(s, item)
                   THEN [s EXCEPT !.wt.desc = <<content>>]
                   ELSE [s EXCEPT !.wt.other = @ \cup {<<item.repo, item.number>>}]
         IN IF Fault("gist_meta", 0) \in faults
            THEN [s |-> s1, url |-> <<>>, raised |-> FALSE,
                  calls |-> <<Call("gist_create", FALSE, 0, "", <<>>)>>]
            ELSE LET s2 == [s1 EXCEPT !.mirror = [ex |-> TRUE, content |-> <<content>>],
                                      !.cfg.gist = <<NewGistId>>]
                     c2 == <<Call("gist_create", TRUE, 0, "", <<>>)>>
                 IN IF Fault("gist_rev", 0) \in faults
                    THEN [s |-> s2, url |-> <<>>, raised |-> FALSE, calls |-> c2]
                    ELSE [s |-> s2, url |-> <<NewGistId, Revision>>,
                          raised |-> FALSE, calls |-> c2]

\* git ls-tree --name-only HEAD, the names that start with 'new' and end
\* with '.md', in the order git lists them
DraftNames == <<"new-2.md", "new.md">>
\* the description file of a repository whose name starts with 'new' is one
\* of these names too, and sorts after the others
DescriptionDraft == "newr#12.md"
DraftIndex(name) ==
    IF name = DescriptionDraft THEN Len(DraftNames) + 1
    ELSE CHOOSE i \in 1..Len(DraftNames) : DraftNames[i] = name
draft_files(s) ==
    LET idx == {i \in 1..Len(DraftNames) : DraftNames[i] \in DOMAIN s.head.drafts}
        RECURSIVE Up(_)
        Up(i) == IF i > Len(DraftNames) THEN <<>>
                 ELSE (IF i \in idx THEN <<DraftNames[i]>> ELSE <<>>) \o Up(i + 1)
    IN Up(1) \o (IF description_repo(s) = NewRepo /\ s.head.desc # <<>>
                 THEN <<DescriptionDraft>> ELSE <<>>)

\* git show HEAD:{draft_file}
show_head(s, draft_file) ==
    IF draft_file = DescriptionDraft THEN s.head.desc[1] ELSE s.head.drafts[draft_file]

\* the loop over the draft files (push.py 260-305).  acc: the state, the
\* calls, the renames to commit, the posts made
RECURSIVE PostDrafts(_, _, _)
PostDrafts(names, acc, e) ==
    IF names = <<>> THEN acc
    ELSE LET d == Head(names)
             draft_content == show_head(acc.s, d)
         IN IF RStripBody(draft_content) = EmptyBody
            THEN PostDrafts(Tail(names), acc, e)
            ELSE IF Fault("post", DraftIndex(d)) \in e.faults
            THEN PostDrafts(Tail(names),
                    [acc EXCEPT !.calls = Append(@, Call("post", FALSE, 0, "", draft_content))], e)
            ELSE LET comment_id == acc.s.nextId
                     stored == ServerStore(e.norm, draft_content)
                     posted_body == NormalizeCRLF(stored)
                     w == write_comment_file(comment_id, CurrentUser, posted_body)
                     s1 == [acc.s EXCEPT
                              !.remote.comments =
                                  Put(@, comment_id, [author |-> CurrentUser, body |-> stored]),
                              !.nextId = comment_id + 1,
                              !.wt.comments = Put(@, w.key, w.file)]
                 IN PostDrafts(Tail(names),
                       [s |-> s1,
                        calls |-> Append(acc.calls,
                                         Call("post", TRUE, comment_id, "", draft_content)),
                        renames |-> Append(acc.renames, [old |-> d, new |-> w.key]),
                        posted |-> Append(acc.posted,
                                          [draft |-> d, id |-> comment_id, key |-> w.key,
                                           sent |-> draft_content, returned |-> stored])],
                       e)

\* faulty variant of bodies_equal: no body ever counts as unchanged
bodies_never_equal(local_body, remote_body) == FALSE

\* faulty variant of others_comment: the recorded author is not looked at
others_comment_unguarded(author, force_others) == FALSE

\* local_body == remote_body, the remote body with its line endings normalized
bodies_equal(local_body, remote_body) == local_body = NormalizeCRLF(remote_body)

\* author != current_user and not force_others
others_comment(author, force_others) == author # CurrentUser /\ ~force_others

\* the loop over the comment files (push.py 323-387).  acc: the state, the
\* calls, the two counters and what was decided for each file
RECURSIVE PushCommentFiles(_, _, _, _, _)
PushCommentFiles(files, remote_comments, acc, f, e) ==
    IF files = <<>> THEN acc
    ELSE LET k == Head(files)
             comment_id == get_comment_id_from_filename(k)
             local == read_comment_file(acc.s.wt.comments[k])
             Next1(a, d) == PushCommentFiles(Tail(files), remote_comments,
                                             [a EXCEPT !.disp = Put(@, k, d)], f, e)
         IN IF comment_id = 0 THEN Next1(acc, "invalid_name")
            ELSE IF local.author = "" THEN Next1(acc, "no_author")
            ELSE IF comment_id \in DOMAIN remote_comments
            THEN IF bodies_equal(local.body, remote_comments[comment_id].body)
                 THEN Next1([acc EXCEPT !.skipped = @ + 1], "unchanged")
                 ELSE IF others_comment(local.author, f.force_others)
                 THEN Next1([acc EXCEPT !.skipped = @ + 1], "not_owner")
                 ELSE IF Fault("patch", comment_id) \in e.faults
                 THEN Next1([acc EXCEPT !.calls =
                                Append(@, Call("patch", FALSE, comment_id, "", local.body))],
                            "patch_failed")
                 ELSE Next1([acc EXCEPT
                                !.calls = Append(@, Call("patch", TRUE, comment_id, "", local.body)),
                                !.s.remote.comments[comment_id].body = local.body,
                                !.pushed = @ + 1],
                            "patched")
            ELSE Next1([acc EXCEPT !.skipped = @ + 1], "orphan")

\* faulty variant of CommitRenames: the renames are never committed
CommitRenamesDropped(renames, s) == s

\* git rm -f old; git add new, for every rename, then git commit
RECURSIVE CommitRenames(_, _)
CommitRenames(renames, s) ==
    IF renames = <<>> THEN s
    ELSE LET r == Head(renames)
         IN CommitRenames(Tail(renames),
               [s EXCEPT !.wt.drafts = Drop(@, r.old),
                         !.head.drafts = Drop(@, r.old),
                         !.wt.desc = IF r.old = DescriptionDraft THEN <<>> ELSE @,
                         !.head.desc = IF r.old = DescriptionDraft THEN <<>> ELSE @,
                         !.head.comments = Put(@, r.new, s.wt.comments[r.new])])

\* ------------------------------------------------------------------ reports
DefaultFlags == [gist |-> FALSE, dry_run |-> FALSE, footer |-> 0, no_footer |-> FALSE,
                 no_comments |-> FALSE, force_others |-> FALSE]
DefaultPullFlags == [gist |-> FALSE, dry_run |-> FALSE, footer |-> "auto", no_comments |-> FALSE]
NoCommentDiff == [drafts |-> <<>>, local |-> <<>>, remote_only |-> {}]

\* what a command leaves behind for the user: how it ended ("ok", "fatal":
\* exit(1), "raised": an exception), the flags it ran with, and what it
\* read, sent and counted (fetched: the ids of the comments pull fetched;
\* item: the owner, repo and number it went on with; found: whether
\* get_item_metadata found the item)
NoItem == [owner |-> "", repo |-> "", number |-> ""]
NoResult ==
    [cmd |-> "none", status |-> "ok", flags |-> DefaultFlags, pull |-> DefaultPullFlags,
     had_gist |-> FALSE, committed |-> <<>>, title |-> "", body |-> <<>>,
     sync_url |-> <<>>, pushed |-> 0, skipped |-> 0, disp |-> <<>>, posted |-> <<>>,
     title_differs |-> FALSE, body_differs |-> FALSE, cdiff |-> NoCommentDiff,
     fetched |-> {}, item |-> NoItem, found |-> TRUE]

\* render_comment_diff: the drafts it previews, the status it prints for
\* every local comment file, and the remote comments it prints as missing
\* locally
render_comment_diff(s, faults) ==
    LET drafts == SelectSeq(draft_files(s),
                            LAMBDA d : RStripBody(show_head(s, d)) # EmptyBody)
        remote_comments == get_item_comments(s, faults)
        comment_files == {k \in DOMAIN s.wt.comments : get_comment_id_from_filename(k) # 0}
        status(k) ==
            LET id == get_comment_id_from_filename(k)
            IN IF id \in DOMAIN remote_comments
               THEN IF read_comment_file(s.wt.comments[k]).body
                         # NormalizeCRLF(remote_comments[id].body)
                    THEN "differs" ELSE "same"
               ELSE "local_only"
    IN [drafts |-> drafts,
        local |-> [k \in comment_files |-> status(k)],
        remote_only |-> IF DOMAIN s.wt.comments = {} THEN {}
                        ELSE {id \in DOMAIN remote_comments :
                                \A k \in comment_files : get_comment_id_from_filename(k) # id}]

\* the comment part of a push that is no dry run (push.py 246-407)
PushComments(s, calls0, r, f, e) ==
    \* posts: the drafts posted; comment_files: the z*.md files, sorted;
    \* loop: the comment files pushed; then the renames are committed.  The
    \* first git rm of the commit raises when it fails (the index is locked,
    \* say): the comment files of the posts are written, nothing is staged.
    Only({Only({Only({
        IF posts.renames # <<>> /\ Fault("git_rm", 0) \in e.faults
        THEN [s |-> loop.s,
              calls |-> loop.calls,
              r |-> [r EXCEPT !.status = "raised",
                              !.pushed = loop.pushed, !.skipped = loop.skipped,
                              !.disp = loop.disp, !.posted = posts.posted]]
        ELSE
        [s |-> CommitRenames(posts.renames, loop.s),
         calls |-> loop.calls,
         r |-> [r EXCEPT !.pushed = loop.pushed, !.skipped = loop.skipped,
                         !.disp = loop.disp, !.posted = posts.posted]] :
          loop \in {PushCommentFiles(comment_files,
                                     IF comment_files = <<>> THEN <<>>
                                     ELSE get_item_comments(posts.s, e.faults),
                                     [s |-> posts.s, calls |-> posts.calls, pushed |-> 0,
                                      skipped |-> 0, disp |-> <<>>], f, e)}}) :
          comment_files \in {SortedKeys(DOMAIN posts.s.wt.comments)}}) :
          posts \in {PostDrafts(draft_files(s),
                                [s |-> s, calls |-> calls0, renames |-> <<>>,
                                 posted |-> <<>>], e)}})

\* the gh calls of push on the item itself that come before its comment
\* loops
ItemCalls == {Fault("fetch_item", 0), Fault("edit", 0), Fault("fetch_comments", 0)}

\* faulty variant of should_add_footer: the disabling flag is not looked at
should_add_footer_undisabled(f, has_gist) == f.footer >= 1 \/ has_gist

\* the footer decision (push.py 99-120)
should_add_footer(f, has_gist) ==
    IF f.no_footer THEN FALSE
    ELSE IF f.footer = 0 THEN has_gist
    ELSE TRUE
footer_visible(f) == ~f.no_footer /\ f.footer >= 2
gist_requested(f) == f.gist \/ (~f.no_footer /\ f.footer >= 1)

\* A faulty dry run, which sends the edit it was asked to preview.
push_dry_run_editing(s, title, body, f, r1, faults) ==
    [s |-> [s EXCEPT !.remote.body = body],
     calls |-> <<Call("edit", TRUE, 0, title, body)>>,
     r |-> r1]

\* The preview of a dry run: the item is fetched and compared with the
\* title and the body that would be sent, the comments are diffed, and
\* nothing is written locally or remotely; without the item only the
\* comments are diffed.
push_dry_run(s, title, body, f, r1, faults) ==
    [s |-> s, calls |-> <<>>,
     r |-> [r1 EXCEPT
        !.title_differs = Fault("fetch_item", 0) \notin faults
                          /\ title # get_item_metadata(s).title,
        !.body_differs =
            /\ Fault("fetch_item", 0) \notin faults
            /\ extract_gist_footer(body).body
               # extract_gist_footer(RStripBody(get_item_metadata(s).body)).body,
        !.cdiff = IF f.no_comments THEN NoCommentDiff
                  ELSE render_comment_diff(s, faults)]]

\* push, from the description read from HEAD on, for the item and in the
\* directory the lookup gave
push_resolved(s, f, e, info, item) ==
    LET has_gist == info.cwd = "tree" /\ s.cfg.gist # <<>>
        add == should_add_footer(f, has_gist)
        r0 == [NoResult EXCEPT !.cmd = "push", !.flags = f, !.had_gist = has_gist,
                               !.item = item,
                               !.found = Fault("fetch_item", 0) \notin e.faults]
        nosync == [s |-> s, url |-> <<>>, raised |-> FALSE, calls |-> <<>>]
    IN \* read_description_from_git('HEAD'): the enclosing checkout holds no
       \* description file
       IF info.cwd # "tree" \/ s.wt.desc = <<>> \/ s.head.desc = <<>>
       THEN [s |-> s, calls |-> <<>>, r |-> [r0 EXCEPT !.status = "fatal"]]
       ELSE
       \* desc_content: the description as committed; parsed: its title and
       \* body; sync: the gist sync; body: the body with the footer, once
       \* the gist is synced; r1: the report so far.  Then the preview of a
       \* dry run, or the edit call and the comments.
       Only({Only({Only({Only({Only({
           IF sync.raised \/ (add /\ sync.url = <<>>)
           THEN [s |-> sync.s, calls |-> sync.calls, r |-> [r1 EXCEPT !.status = "raised"]]
           ELSE IF f.dry_run
           THEN push_dry_run(s, parsed.title, body, f, r1, e.faults)
           ELSE IF Fault("edit", 0) \in e.faults
           THEN [s |-> sync.s,
                 calls |-> Append(sync.calls, Call("edit", FALSE, 0, parsed.title, body)),
                 r |-> [r1 EXCEPT !.status = "fatal"]]
           ELSE IF f.no_comments
           THEN [s |-> [sync.s EXCEPT
                           !.remote.title = IF parsed.title # "" THEN parsed.title ELSE @,
                           !.remote.body = body],
                 calls |-> Append(sync.calls, Call("edit", TRUE, 0, parsed.title, body)),
                 r |-> r1]
           ELSE PushComments([sync.s EXCEPT
                                 !.remote.title = IF parsed.title # "" THEN parsed.title
                                                  ELSE @,
                                 !.remote.body = body],
                             Append(sync.calls, Call("edit", TRUE, 0, parsed.title, body)),
                             r1, f, e) :
             r1 \in {[r0 EXCEPT !.committed = desc_content, !.title = parsed.title,
                                !.body = parsed.body, !.sync_url = sync.url]}}) :
             body \in {IF add /\ sync.url # <<>>
                       THEN add_gist_footer(parsed.body, sync.url, footer_visible(f))
                       ELSE parsed.body}}) :
             sync \in {IF gist_requested(f) \/ add
                       THEN IF f.dry_run
                            THEN [nosync EXCEPT !.url = IF has_gist THEN <<s.cfg.gist[1]>>
                                                        ELSE <<"NEW_GIST">>]
                            ELSE IF gist_requested(f) \/ has_gist
                            THEN sync_to_gist(s, item, desc_content, e.faults)
                            ELSE nosync
                       ELSE nosync}}) :
             parsed \in {ParseDescription(desc_content)}}) :
             desc_content \in {NormalizeCRLF(s.head.desc[1])}})

\* push(gist, dry_run, footer, no_footer, ..., no_comments, force_others):
\* the state after it, its calls and its report.  Without owner, repo and
\* number from the lookup, git config is read again and push goes on with
\* what it holds, in the directory the lookup left (the enclosing checkout
\* has no pr.* config); no gh call on an item without all three succeeds.
push(s, f, e0) ==
    Only({Only({Only({push_resolved(s, f, e, info, item) :
                        e \in {[e0 EXCEPT !.faults =
                                    @ \cup (IF all(item) THEN {} ELSE ItemCalls)]}}) :
                  item \in {IF all(info)
                            THEN [owner |-> info.owner, repo |-> info.repo,
                                  number |-> info.number]
                            ELSE IF info.cwd = "tree"
                            THEN [owner |-> s.cfg.owner, repo |-> s.cfg.repo,
                                  number |-> s.cfg.number]
                            ELSE NoItem}}) :
            info \in {get_pr_info_from_path(s.cfg, description_md(s))}})

\* ------------------------------------------------------------------ pull
\* A faulty loop over the remote comments, which writes no comment file.
PullCommentLoop_skipping(ids, remote_comments, acc, dry_run) == acc

\* the loop over the remote comments (pull.py 91-120).  acc: the state, the
\* files staged (git add) and removed (git rm), whether git rm raised
RECURSIVE PullCommentLoop(_, _, _, _)
PullCommentLoop(ids, remote_comments, acc, dry_run) ==
    IF ids = <<>> \/ acc.raised THEN acc
    ELSE LET comment_id == Head(ids)
             c == remote_comments[comment_id]
             existing == {k \in DOMAIN acc.s.wt.comments :
                             get_comment_id_from_filename(k) = comment_id}
             existing_file == CHOOSE k \in existing :
                                 \A j \in existing : FileRank(j) <= FileRank(k)
             w == write_comment_file(comment_id, c.author, c.body)
             written == [acc EXCEPT !.s.wt.comments = Put(@, w.key, w.file),
                                    !.added = @ \cup {w.key}]
             Next1(a) == PullCommentLoop(Tail(ids), remote_comments, a, dry_run)
         IN IF existing # {}
            THEN IF read_comment_file(acc.s.wt.comments[existing_file]).body # c.body
                 THEN IF dry_run THEN Next1(acc)
                      ELSE IF w.key # existing_file
                      THEN \* git rm refuses a file with local modifications
                           IF existing_file \in DOMAIN acc.s.head.comments
                              /\ acc.s.head.comments[existing_file]
                                 = acc.s.wt.comments[existing_file]
                           THEN Next1([written EXCEPT
                                         !.s.wt.comments = Drop(@, existing_file),
                                         !.removed = @ \cup {existing_file}])
                           ELSE [written EXCEPT !.raised = TRUE]
                      ELSE Next1(written)
                 ELSE Next1(acc)
            ELSE IF dry_run THEN Next1(acc) ELSE Next1(written)

RECURSIVE SortedIds(_)
SortedIds(ids) ==
    IF ids = {} THEN <<>>
    ELSE LET i == CHOOSE x \in ids : \A y \in ids : x <= y
         IN <<i>> \o SortedIds(ids \ {i})

\* A faulty comment part of pull, which mirrors the remote: the local
\* comment files of comments that are no longer on the remote are removed.
PullComments_pruning(s, dry_run, faults) ==
    [s |-> [s EXCEPT !.wt.comments =
                [k \in {x \in DOMAIN @ : get_comment_id_from_filename(x)
                                             \in DOMAIN get_item_comments(s, faults)}
                   |-> @[k]]],
     raised |-> FALSE, fetched |-> DOMAIN get_item_comments(s, faults)]

\* the comment part of pull (pull.py 75-137); git commit raises when
\* nothing it staged differs from HEAD
PullComments(s, dry_run, faults) ==
    \* remote_comments: the comments fetched; loop: the files written;
    \* committed: the comment files of the commit
    Only({Only({Only({
        IF loop.raised \/ loop.added = {}
        THEN [s |-> loop.s, raised |-> loop.raised, fetched |-> DOMAIN remote_comments]
        ELSE IF committed = s.head.comments
        THEN [s |-> loop.s, raised |-> TRUE, fetched |-> DOMAIN remote_comments]
        ELSE [s |-> [loop.s EXCEPT !.head.comments = committed], raised |-> FALSE,
              fetched |-> DOMAIN remote_comments] :
          committed \in {[k \in (DOMAIN s.head.comments \ loop.removed) \cup loop.added |->
                            IF k \in loop.added THEN loop.s.wt.comments[k]
                            ELSE s.head.comments[k]]}}) :
          loop \in {PullCommentLoop(SortedIds(DOMAIN remote_comments), remote_comments,
                                    [s |-> s, added |-> {}, removed |-> {},
                                     raised |-> FALSE], dry_run)}}) :
          remote_comments \in {get_item_comments(s, faults)}})

\* pull(gist, dry_run, footer, ..., no_comments); footer is "yes"
\* (--footer), "no" (--no-footer) or "auto" (neither)
pull_resolved(s, pf, e, info) ==
    LET r0 == [NoResult EXCEPT !.cmd = "pull", !.pull = pf,
                               !.item = [owner |-> info.owner, repo |-> info.repo,
                                         number |-> info.number]]
        footer_count == IF pf.footer = "yes" THEN 1 ELSE 0
    IN \* without all three, git config is read again, to no other end
       IF ~all(info) \/ Fault("fetch_item", 0) \in e.faults
       THEN [s |-> s, calls |-> <<>>,
             r |-> [r0 EXCEPT !.status = "fatal",
                              !.found = all(info) /\ Fault("fetch_item", 0) \notin e.faults]]
       ELSE
       \* desc: the description file as written from the item; s1: the
       \* tree with it, committed when it changed; cs: the tree after the
       \* comments; p: "Pushing local changes back...", push_module.push(...)
       Only({Only({Only({
           IF cs.raised
           THEN [s |-> cs.s, calls |-> <<>>,
                 r |-> [r0 EXCEPT !.status = "raised", !.fetched = cs.fetched]]
           ELSE Only({[s |-> p.s, calls |-> p.calls,
                       r |-> [p.r EXCEPT !.cmd = "pull", !.pull = pf,
                                         !.fetched = cs.fetched]] :
                        p \in {push(cs.s, [gist |-> pf.gist, dry_run |-> pf.dry_run,
                                           footer |-> footer_count, no_footer |-> FALSE,
                                           no_comments |-> pf.no_comments,
                                           force_others |-> FALSE], e)}}) :
             cs \in {IF pf.no_comments THEN [s |-> s1, raised |-> FALSE, fetched |-> {}]
                     ELSE PullComments(s1, pf.dry_run, e.faults)}}) :
             s1 \in {[s EXCEPT !.wt.desc = desc,
                               !.head.desc = IF desc # @ /\ ~pf.dry_run THEN desc ELSE @]}}) :
             desc \in {<<write_description_with_link_ref(
                            get_item_metadata(s).title,
                            extract_gist_footer(get_item_metadata(s).body).body)>>}})

pull(s, pf, e) ==
    Only({pull_resolved(s, pf, e, info) :
            info \in {get_pr_info_from_path(s.cfg, description_md(s))}})

\* ------------------------------------------------------------------ diff
\* faulty variant of diff: the fetched description is written to the file
diff_writing(s, no_comments, faults) ==
    [s |-> [s EXCEPT !.wt.desc =
               <<write_description_with_link_ref(s.remote.title, s.remote.body)>>],
     calls |-> <<>>,
     r |-> [NoResult EXCEPT !.cmd = "diff", !.flags.no_comments = no_comments]]

\* diff(color, no_comments): only a report
diff_resolved(s, no_comments, faults, info) ==
    LET r0 == [NoResult EXCEPT !.cmd = "diff", !.flags.no_comments = no_comments,
                               !.item = [owner |-> info.owner, repo |-> info.repo,
                                         number |-> info.number]]
    IN \* without all three, git config is read again and the lookup of the
       \* item fails; the enclosing checkout holds no description file
       IF ~all(info) \/ info.cwd # "tree" \/ Fault("fetch_item", 0) \in faults
          \/ s.wt.desc = <<>> \/ s.head.desc = <<>>
       THEN [s |-> s, calls |-> <<>>,
             r |-> [r0 EXCEPT !.status = "fatal",
                              !.found = all(info) /\ Fault("fetch_item", 0) \notin faults]]
       ELSE
       LET pr_data == get_item_metadata(s)
           desc_content == NormalizeCRLF(s.head.desc[1])
           parsed == ParseDescription(desc_content)
       IN [s |-> s, calls |-> <<>>,
           r |-> [r0 EXCEPT
              !.committed = desc_content, !.title = parsed.title, !.body = parsed.body,
              !.title_differs = parsed.title # pr_data.title,
              !.body_differs = extract_gist_footer(parsed.body).body
                               # extract_gist_footer(RStripBody(pr_data.body)).body,
              !.cdiff = IF no_comments THEN NoCommentDiff
                        ELSE render_comment_diff(s, faults)]]

diff(s, no_comments, faults) ==
    Only({diff_resolved(s, no_comments, faults, info) :
            info \in {get_pr_info_from_path(s.cfg, description_md(s))}})

\* ------------------------------------------------------------------ clone
\* the comment files clone writes and commits (clone.py 193-211)
CloneComments(remote_comments) ==
    [k \in {write_comment_file(id, remote_comments[id].author, remote_comments[id].body).key :
               id \in DOMAIN remote_comments} |->
        write_comment_file(k.id, remote_comments[k.id].author, remote_comments[k.id].body).file]

\* the state before any clone: no directory, no repository; the target is
\* gh/{number} inside a checkout of the item's repository
Blank(rem, next_id) ==
    [wt |-> EmptyTree, head |-> EmptyTree,
     cfg |-> [owner |-> "", repo |-> "", number |-> "", type |-> "", gist |-> <<>>,
              dir |-> Item.number, origin |-> <<Item.owner, Item.repo>>],
     remote |-> rem, mirror |-> [ex |-> FALSE, content |-> <<>>], nextId |-> next_id]

\* A faulty test of the target directory, which finds none.
exists_never(s) == FALSE

\* exists(target_path): the target directory is there, with the files or the
\* repository of an earlier clone
exists(s) == s.wt # EmptyTree \/ s.cfg.type # ""

\* clone(directory, no_gist, no_comments, spec) of the remote item of s into
\* the directory of s: the state after it, its calls and how it ended.
\* proc.run raises when the command it runs fails, and clone catches
\* nothing; with no_gist the local gist_url is never bound and reading it
\* at the end (clone.py 213, 224) raises as well.
clone(s, no_gist, no_comments, faults) ==
    LET r0 == [NoResult EXCEPT !.cmd = "clone", !.flags.gist = ~no_gist,
                               !.flags.no_comments = no_comments]
        Step(s1, cs, raised, to_push, created) ==
            [s |-> s1, calls |-> cs, raised |-> raised, to_push |-> to_push,
             created |-> created]
    IN IF Fault("fetch_item", 0) \in faults \/ exists(s)
       THEN [s |-> s, calls |-> <<>>, r |-> [r0 EXCEPT !.status = "fatal"]]
       ELSE
       \* item_data: the item; ex: its body and the gist of its footer; s1:
       \* the description file written and committed, the git config set;
       \* a: the gist of the footer when GIST_ID_PATTERN finds its id, else a
       \* new gist; b: git fetch and git push --force to the gist, and the
       \* footer for a new gist; files: the comment files
       Only({Only({Only({Only({Only({
           IF b.raised
           THEN [s |-> b.s, calls |-> b.calls, r |-> [r0 EXCEPT !.status = "raised"]]
           ELSE Only({[s |-> [b.s EXCEPT !.wt.comments = files, !.head.comments = files],
                       calls |-> b.calls,
                       r |-> IF no_gist THEN [r0 EXCEPT !.status = "raised"] ELSE r0] :
                        files \in {IF no_comments THEN <<>>
                                   ELSE CloneComments(get_item_comments(b.s, faults))}}) :
             b \in {IF a.raised \/ ~a.to_push THEN a
                    ELSE IF Fault("gist_fetch", 0) \in faults
                    THEN Step(a.s, Append(a.calls, Call("gist_fetch", FALSE, 0, "", <<>>)),
                              TRUE, TRUE, a.created)
                    ELSE IF Fault("gist_push", 0) \in faults
                    THEN Step(a.s, Append(a.calls, Call("gist_push", FALSE, 0, "", <<>>)),
                              TRUE, TRUE, a.created)
                    ELSE IF ~a.created
                    THEN Step([a.s EXCEPT !.mirror = [ex |-> TRUE, content |-> a.s.head.desc]],
                              Append(a.calls, Call("gist_push", TRUE, 0, "", <<>>)),
                              FALSE, TRUE, FALSE)
                    ELSE IF Fault("edit", 0) \in faults
                    THEN Step([a.s EXCEPT !.mirror = [ex |-> TRUE, content |-> a.s.head.desc]],
                              a.calls \o <<Call("gist_push", TRUE, 0, "", <<>>),
                                           Call("edit", FALSE, 0, "",
                                                add_gist_footer(item_data.body,
                                                                <<NewGistId>>, FALSE))>>,
                              TRUE, TRUE, TRUE)
                    ELSE Step([a.s EXCEPT
                                  !.mirror = [ex |-> TRUE, content |-> a.s.head.desc],
                                  !.remote.body = add_gist_footer(item_data.body,
                                                                  <<NewGistId>>, FALSE)],
                              a.calls \o <<Call("gist_push", TRUE, 0, "", <<>>),
                                           Call("edit", TRUE, 0, "",
                                                add_gist_footer(item_data.body,
                                                                <<NewGistId>>, FALSE))>>,
                              FALSE, TRUE, TRUE)}}) :
             a \in {IF no_gist THEN Step(s1, <<>>, FALSE, FALSE, FALSE)
                    ELSE IF GIST_ID_PATTERN(ex.url) # <<>>
                    THEN Step([s1 EXCEPT !.cfg.gist = GIST_ID_PATTERN(ex.url)],
                              <<>>, FALSE, TRUE, FALSE)
                    ELSE IF Fault("repo_meta", 0) \in faults
                    THEN Step(s1, <<>>, TRUE, FALSE, FALSE)
                    ELSE IF Fault("gist_meta", 0) \in faults
                    THEN Step(s1, <<Call("gist_create", FALSE, 0, "", <<>>)>>,
                              TRUE, FALSE, FALSE)
                    ELSE Step([s1 EXCEPT !.cfg.gist = <<NewGistId>>,
                                         !.mirror = [ex |-> TRUE, content |-> s1.head.desc]],
                              <<Call("gist_create", TRUE, 0, "", <<>>)>>,
                              FALSE, TRUE, TRUE)}}) :
             s1 \in {[s EXCEPT
                        !.wt.desc = <<write_description_with_link_ref(item_data.title,
                                                                      ex.body)>>,
                        !.head.desc = <<write_description_with_link_ref(item_data.title,
                                                                        ex.body)>>,
                        !.cfg.owner = Item.owner, !.cfg.repo = Item.repo,
                        !.cfg.number = Item.number, !.cfg.type = "pr"]}}) :
             ex \in {extract_gist_footer(item_data.body)}}) :
             item_data \in {get_item_metadata(s)}})

\* ------------------------------------------------------------------ create
\* The number GitHub gives the next item of the repository.
NewNumber == "13"

\* create, were read_description_file to take the expect_plain argument:
\* past the parse, a run that is no dry run stores the new number in
\* pr.number (create.py 480, 513, 607, 627) and renames the file
create_parsing(s, f) ==
    LET r0 == [NoResult EXCEPT !.cmd = "create", !.flags.dry_run = f.dry_run]
    IN IF f.draft /\ f.yes = 0
       THEN [s |-> s, calls |-> <<>>, r |-> [r0 EXCEPT !.status = "fatal"]]
       ELSE IF DescriptionMd \notin s.wt.other
       THEN [s |-> s, calls |-> <<>>, r |-> [r0 EXCEPT !.status = "fatal"]]
       ELSE IF f.dry_run THEN [s |-> s, calls |-> <<>>, r |-> r0]
       ELSE [s |-> [s EXCEPT !.cfg.number = NewNumber,
                             !.cfg.type = IF f.issue THEN "issue" ELSE @,
                             !.wt.other = @ \ {DescriptionMd}],
             calls |-> <<Call("create", TRUE, 0, "T1", <<>>)>>, r |-> r0]

\* create(head, base, draft, issue, repo, yes, dry_run) in the tree of s.
\* --draft with the web editor (yes = 0) is refused; without a file
\* DESCRIPTION.md, _read_and_parse_description exits; with one it calls
\* read_description_file(expect_plain=True), and read_description_file
\* (files.py 107) takes no such argument: the call raises TypeError before
\* anything is read, created or stored, for an issue and for a PR alike.
create(s, f) ==
    LET r0 == [NoResult EXCEPT !.cmd = "create", !.flags.dry_run = f.dry_run]
    IN IF f.draft /\ f.yes = 0
       THEN [s |-> s, calls |-> <<>>, r |-> [r0 EXCEPT !.status = "fatal"]]
       ELSE IF DescriptionMd \notin s.wt.other
       THEN [s |-> s, calls |-> <<>>, r |-> [r0 EXCEPT !.status = "fatal"]]
       ELSE [s |-> s, calls |-> <<>>, r |-> [r0 EXCEPT !.status = "raised"]]

\* ------------------------------------------------------------------ inputs
PushFlags == [gist : BOOLEAN, dry_run : BOOLEAN, footer : 0..2, no_footer : BOOLEAN,
              no_comments : BOOLEAN, force_others : BOOLEAN]
PullFlags == [gist : BOOLEAN, dry_run : BOOLEAN, footer : {"auto", "yes", "no"},
              no_comments : BOOLEAN]

\* the external calls a command may make in state s, each of which may fail
\* (gist_norev: the gist API names no revision)
GistFaults(s) ==
    {Fault("gist_meta", 0), Fault("gist_rev", 0)}
    \cup (IF s.cfg.gist # <<>> THEN {Fault("gist_push", 0), Fault("gist_norev", 0)} ELSE {})
CommentFaults(s) ==
    {Fault("fetch_comments", 0)}
    \cup {Fault("post", DraftIndex(d)) : d \in DOMAIN s.head.drafts}
    \cup {Fault("patch", get_comment_id_from_filename(k)) : k \in DOMAIN s.wt.comments}
AtMost(S, n) == {F \in SUBSET S : Cardinality(F) <= n}
Norms(s) == IF DOMAIN s.head.drafts = {} THEN {"same"} ELSE NormKinds

PushEnvs(s, f) ==
    IF f.dry_run THEN {[faults |-> {}, norm |-> "same"]}
    ELSE [faults : AtMost((IF gist_requested(f) \/ should_add_footer(f, s.cfg.gist # <<>>)
                           THEN GistFaults(s) ELSE {})
                          \cup {Fault("edit", 0)}
                          \cup (IF f.no_comments THEN {} ELSE CommentFaults(s)),
                          MaxFaults),
          norm : IF f.no_comments THEN {"same"} ELSE Norms(s)]
PullEnvs(s, pf) ==
    [faults : AtMost({Fault("fetch_item", 0)}
                     \cup (IF pf.dry_run THEN {}
                           ELSE GistFaults(s) \cup {Fault("edit", 0)})
                     \cup (IF pf.no_comments THEN {} ELSE CommentFaults(s)),
                     MaxFaults),
     norm : IF pf.no_comments \/ pf.dry_run THEN {"same"} ELSE Norms(s)]

\* the texts the user and other parties type
UserDescriptions ==
    {<<H1Ref("T1"), T(""), T("b"), T(""), LinkDef, T("")>>,
     <<H1Ref("T2"), T(""), T("a"), T(""), LinkDef, T("")>>}
DraftBodies == {<<T("a"), T("")>>, <<T(" ")>>}
CommentEdits == {<<T("b")>>}
\* the comment bodies others type on the remote: one starts with whitespace
RemoteCommentBodies == {<<T("b")>>, <<T(" a")>>}
\* the bodies the item is given on the remote: a new text, and the body an
\* earlier push of the cloned description left, with a hidden or a visible
\* footer
RemoteBodies ==
    {<<T("b")>>,
     add_gist_footer(<<T("a"), T(""), LinkDef>>, <<"a1", "c9">>, FALSE),
     add_gist_footer(<<T("a"), T(""), LinkDef>>, <<"a1", "c9">>, TRUE)}

\* ------------------------------------------------------------------ behaviour
\* a PR with two comments, one by the current user and one by somebody
\* else, freshly cloned with or without a gist
InitialRemote ==
    [title |-> "T1", body |-> <<T("a")>>,
     comments |-> (1 :> [author |-> "alice", body |-> <<T("a")>>]
                   @@ 2 :> [author |-> "bob", body |-> <<T("a")>>])]

Init ==
    \E no_gist \in BOOLEAN :
        LET s == clone(Blank(InitialRemote, 3), no_gist, FALSE, {}).s
        IN /\ wt = s.wt /\ head = s.head /\ cfg = s.cfg /\ remote = s.remote
           /\ mirror = s.mirror /\ nextId = s.nextId
           /\ calls = <<>> /\ result = NoResult /\ envSteps = 0 /\ commands = 0

\* a command runs once: v is its outcome
Command(o) ==
    \E v \in {o} :
        /\ wt' = v.s.wt /\ head' = v.s.head /\ cfg' = v.s.cfg /\ remote' = v.s.remote
        /\ mirror' = v.s.mirror /\ nextId' = v.s.nextId
        /\ calls' = v.calls /\ result' = v.r
        /\ commands' = commands + 1
        /\ UNCHANGED envSteps

Push ==
    /\ commands < MaxCommands
    /\ nextId + Cardinality(DOMAIN head.drafts) <= MaxServerId + 1
    /\ \E f \in PushFlags : \E e \in PushEnvs(St, f) : Command(push(St, f, e))

Pull ==
    /\ commands < MaxCommands
    /\ nextId + Cardinality(DOMAIN head.drafts) <= MaxServerId + 1
    /\ \E pf \in PullFlags : \E e \in PullEnvs(St, pf) : Command(pull(St, pf, e))

Diff ==
    /\ commands < MaxCommands
    /\ \E no_comments \in BOOLEAN :
       \E faults \in AtMost({Fault("fetch_item", 0), Fault("fetch_comments", 0)}, MaxFaults) :
          Command(diff(St, no_comments, faults))

Env == envSteps < MaxEnvSteps /\ envSteps' = envSteps + 1
       /\ UNCHANGED <<calls, result, commands>>

UserEditDescription ==
    /\ Env /\ wt.desc # <<>>
    /\ \E text \in UserDescriptions : wt' = [wt EXCEPT !.desc = <<text>>]
    /\ UNCHANGED <<head, cfg, remote, mirror, nextId>>

UserWriteDraft ==
    /\ Env
    /\ \E i \in 1..Len(DraftNames), body \in DraftBodies :
          wt' = [wt EXCEPT !.drafts = Put(@, DraftNames[i], body)]
    /\ UNCHANGED <<head, cfg, remote, mirror, nextId>>

\* the user rewrites a comment file's body, or deletes its metadata lines
UserEditComment ==
    /\ Env
    /\ \E k \in DOMAIN wt.comments :
          \E file \in {[wt.comments[k] EXCEPT !.body = b] : b \in CommentEdits}
                      \cup {[wt.comments[k] EXCEPT !.author = ""]} :
             wt' = [wt EXCEPT !.comments[k] = file]
    /\ UNCHANGED <<head, cfg, remote, mirror, nextId>>

\* git add -A; git commit
UserCommit ==
    /\ Env /\ head # wt
    /\ head' = wt
    /\ UNCHANGED <<wt, cfg, remote, mirror, nextId>>

RemoteEditItem ==
    /\ Env
    /\ \E body \in RemoteBodies : remote' = [remote EXCEPT !.body = body]
    /\ UNCHANGED <<wt, head, cfg, mirror, nextId>>

RemoteEditComment ==
    /\ Env
    /\ \E id \in DOMAIN remote.comments, body \in RemoteCommentBodies :
          remote' = [remote EXCEPT !.comments[id].body = body]
    /\ UNCHANGED <<wt, head, cfg, mirror, nextId>>

RemoteDeleteComment ==
    /\ Env
    /\ \E id \in DOMAIN remote.comments :
          remote' = [remote EXCEPT !.comments = Drop(@, id)]
    /\ UNCHANGED <<wt, head, cfg, mirror, nextId>>

RemoteAddComment ==
    /\ Env /\ nextId <= MaxServerId
    /\ remote' = [remote EXCEPT !.comments =
                     Put(@, nextId, [author |-> "bob", body |-> <<T("a")>>])]
    /\ nextId' = nextId + 1
    /\ UNCHANGED <<wt, head, cfg, mirror>>

Next ==
    \/ Push \/ Pull \/ Diff
    \/ UserEditDescription \/ UserWriteDraft \/ UserEditComment \/ UserCommit
    \/ RemoteEditItem \/ RemoteEditComment \/ RemoteDeleteComment \/ RemoteAddComment

Spec == Init /\ [][Next]_vars

\* Two pulls in a row: the edits of the user and of others all come before
\* the first pull, and the second pull is run with the options of the first
\* while every call it makes succeeds.
PullInARow ==
    /\ commands \in {0, 1}
    /\ nextId + Cardinality(DOMAIN head.drafts) <= MaxServerId + 1
    /\ \E pf \in (IF commands = 0 THEN PullFlags ELSE {result.pull}) :
          \E e \in (IF commands = 0 THEN PullEnvs(St, pf)
                                   ELSE [faults : {{}}, norm : Norms(St)]) :
             Command(pull(St, pf, e))

NextPullTwice ==
    \/ PullInARow
    \/ commands = 0 /\ UserEditDescription
    \/ commands = 0 /\ UserWriteDraft
    \/ commands = 0 /\ UserEditComment
    \/ commands = 0 /\ UserCommit
    \/ commands = 0 /\ RemoteEditItem
    \/ commands = 0 /\ RemoteEditComment
    \/ commands = 0 /\ RemoteDeleteComment
    \/ commands = 0 /\ RemoteAddComment

SpecPullTwice == Init /\ [][NextPullTwice]_vars

\* A push and, right after it, the same push again or a diff.  The edits of
\* the user and of others all come before the first push, whose commit of
\* the renames may fail; every other call succeeds.
PushInARow ==
    /\ commands \in {0, 1}
    /\ commands = 1 => result.cmd = "push"
    /\ nextId + Cardinality(DOMAIN head.drafts) <= MaxServerId + 1
    /\ \E f \in (IF commands = 0 THEN PushFlags ELSE {result.flags}) :
          \E e \in [faults : IF commands = 0 THEN {{}, {Fault("git_rm", 0)}} ELSE {{}},
                     norm : {"same"}] :
             Command(push(St, f, e))

DiffAfterPush ==
    /\ commands = 1 /\ result.cmd = "push"
    /\ \E no_comments \in BOOLEAN : Command(diff(St, no_comments, {}))

NextPushTwice ==
    \/ PushInARow
    \/ DiffAfterPush
    \/ commands = 0 /\ UserEditDescription
    \/ commands = 0 /\ UserWriteDraft
    \/ commands = 0 /\ UserEditComment
    \/ commands = 0 /\ UserCommit
    \/ commands = 0 /\ RemoteEditItem
    \/ commands = 0 /\ RemoteEditComment

SpecPushTwice == Init /\ [][NextPushTwice]_vars

\* ------------------------------------------------------------------ repository names
\* One push in a tree cloned from a repository of either name, after edits
\* of the user.
RepoNames == {Item.repo, NewRepo}

InitRepoNames ==
    \E repo \in RepoNames, no_gist \in BOOLEAN :
        LET s == clone(Blank(InitialRemote, 3), no_gist, FALSE, {}).s
        IN /\ wt = s.wt /\ head = s.head /\ cfg = [s.cfg EXCEPT !.repo = repo]
           /\ remote = s.remote /\ mirror = s.mirror /\ nextId = s.nextId
           /\ calls = <<>> /\ result = NoResult /\ envSteps = 0 /\ commands = 0

PushNamed ==
    /\ commands = 0
    /\ nextId + Cardinality(DOMAIN head.drafts) + 1 <= MaxServerId + 1
    /\ \E f \in PushFlags :
          Command(push(St, f, [faults |-> {}, norm |-> "same"]))

NextRepoNames ==
    \/ PushNamed
    \/ commands = 0 /\ UserEditDescription
    \/ commands = 0 /\ UserWriteDraft
    \/ commands = 0 /\ UserCommit

SpecRepoNames == InitRepoNames /\ [][NextRepoNames]_vars

\* One clone, and one diff after it, into a directory that is not there or
\* that an earlier clone left, of an item whose body has no footer, a hidden or a visible footer
\* that names an existing gist, with or without a revision, or a footer
\* that names an old gist with a short id.
CloneBodies ==
    {<<T("a")>>,
     add_gist_footer(<<T("a")>>, <<"e5">>, FALSE),
     add_gist_footer(<<T("a")>>, <<"e5", "c9">>, FALSE),
     add_gist_footer(<<T("a")>>, <<"e5">>, TRUE),
     add_gist_footer(<<T("a")>>, <<"7">>, FALSE)}
CloneRemotes ==
    {[InitialRemote EXCEPT !.body = b, !.comments = c] :
        b \in CloneBodies, c \in {InitialRemote.comments, <<>>}}
CloneFaults ==
    {Fault("fetch_item", 0), Fault("repo_meta", 0), Fault("gist_meta", 0),
     Fault("gist_fetch", 0), Fault("gist_push", 0), Fault("edit", 0),
     Fault("fetch_comments", 0)}

InitClone ==
    \E rem \in CloneRemotes, there \in BOOLEAN :
        LET named == [ex |-> extract_gist_footer(rem.body).url # <<>>, content |-> <<>>]
            s == IF there
                 THEN [clone(Blank(InitialRemote, 3), TRUE, FALSE, {}).s
                          EXCEPT !.remote = rem, !.mirror = named]
                 ELSE [Blank(rem, 3) EXCEPT !.mirror = named]
        IN /\ wt = s.wt /\ head = s.head /\ cfg = s.cfg /\ remote = s.remote
           /\ mirror = s.mirror /\ nextId = s.nextId
           /\ calls = <<>> /\ result = NoResult /\ envSteps = 0 /\ commands = 0

Clone ==
    /\ commands = 0
    /\ \E no_gist \in BOOLEAN, no_comments \in BOOLEAN :
       \E faults \in AtMost(CloneFaults, MaxFaults) :
          Command(clone(St, no_gist, no_comments, faults))

\* diff run right after the clone, in the directory the clone was to fill
DiffAfterClone ==
    /\ commands = 1 /\ result.cmd = "clone"
    /\ \E no_comments \in BOOLEAN : Command(diff(St, no_comments, {}))

NextClone == Clone \/ DiffAfterClone

SpecClone == InitClone /\ [][NextClone]_vars

\* One command in a tree whose identity may not resolve.  The tree is a
\* clone in gh/{number} inside a checkout of the repository, or in a
\* directory of the user's choice (clone's directory argument); its git
\* config is as clone left it, or lacks pr.number, or lacks every pr.* key (a
\* copy made with git clone).  A tree without its full git config sits in
\* no checkout with a GitHub remote, so that no command works in the
\* enclosing directory.
Bindings ==
    {[kept |-> "all", dir |-> Item.number, origin |-> <<Item.owner, Item.repo>>],
     [kept |-> "all", dir |-> "", origin |-> <<>>],
     [kept |-> "no_number", dir |-> "", origin |-> <<>>],
     [kept |-> "none", dir |-> "", origin |-> <<>>],
     [kept |-> "none", dir |-> Item.number, origin |-> <<>>]}
Bound(c, b) ==
    CASE b.kept = "all" -> [c EXCEPT !.dir = b.dir, !.origin = b.origin]
      [] b.kept = "no_number" -> [c EXCEPT !.number = "", !.dir = b.dir, !.origin = b.origin]
      [] OTHER -> [owner |-> "", repo |-> "", number |-> "", type |-> "", gist |-> <<>>,
                   dir |-> b.dir, origin |-> b.origin]

InitIdentity ==
    \E no_gist \in BOOLEAN, b \in Bindings, md \in BOOLEAN :
        LET s == clone(Blank(InitialRemote, 3), no_gist, FALSE, {}).s
        IN /\ wt = [s.wt EXCEPT !.other = IF md THEN {DescriptionMd} ELSE {}]
           /\ head = s.head /\ cfg = Bound(s.cfg, b) /\ remote = s.remote
           /\ mirror = s.mirror /\ nextId = s.nextId
           /\ calls = <<>> /\ result = NoResult /\ envSteps = 0 /\ commands = 0

\* push, where the lookup of the item may be what fails
PushLookup ==
    /\ commands < MaxCommands
    /\ nextId + Cardinality(DOMAIN head.drafts) <= MaxServerId + 1
    /\ \E f \in PushFlags :
       \E e \in PushEnvs(St, f) \cup {[faults |-> {Fault("fetch_item", 0)}, norm |-> "same"]} :
          Command(push(St, f, e))

\* a command that may run before and after the one push, pull or diff
Beside(o) ==
    \E v \in {o} :
        /\ wt' = v.s.wt /\ head' = v.s.head /\ cfg' = v.s.cfg /\ remote' = v.s.remote
        /\ mirror' = v.s.mirror /\ nextId' = v.s.nextId
        /\ calls' = v.calls /\ result' = v.r
        /\ UNCHANGED <<envSteps, commands>>

CreateFlags == [draft : BOOLEAN, yes : 0..2, issue : BOOLEAN, dry_run : BOOLEAN]

Create == \E f \in CreateFlags : Beside(create(St, f))

\* clone with the tree's own directory as its target
CloneAgain ==
    \E no_gist \in BOOLEAN, faults \in {{}, {Fault("fetch_item", 0)}} :
        Beside(clone(St, no_gist, FALSE, faults))

NextIdentity == PushLookup \/ Pull \/ Diff \/ Create \/ CloneAgain

SpecIdentity == InitIdentity /\ [][NextIdentity]_vars

\* Clone and pull of an item whose body and comment were sent to GitHub with
\* any line ends: none, a line feed, a carriage return and a line feed, or
\* two carriage returns and a line feed.  Every call succeeds.
IngressBodies ==
    {<<T("a")>>,
     <<T("a"), T("b")>>,
     <<T("a\r"), T("b")>>,
     <<T("a\r\r"), T("b")>>}
IngressRemotes ==
    {[title |-> "T1", body |-> b, comments |-> (2 :> [author |-> "bob", body |-> c])] :
        b \in IngressBodies, c \in IngressBodies}

InitIngress ==
    \E rem \in IngressRemotes :
        \E s \in {Blank(rem, 3)} :
            /\ wt = s.wt /\ head = s.head /\ cfg = s.cfg /\ remote = s.remote
            /\ mirror = s.mirror /\ nextId = s.nextId
            /\ calls = <<>> /\ result = NoResult /\ envSteps = 0 /\ commands = 0

CloneIngress ==
    /\ commands = 0
    /\ \E no_gist \in BOOLEAN : Command(clone(St, no_gist, FALSE, {}))

\* another party rewrites the body of the item and of its comment
RemoteRewrite ==
    /\ commands = 1 /\ envSteps = 0 /\ envSteps' = 1
    /\ \E rem \in IngressRemotes : remote' = [remote EXCEPT !.body = rem.body,
                                                              !.comments = rem.comments]
    /\ UNCHANGED <<wt, head, cfg, mirror, nextId, calls, result, commands>>

PullIngress ==
    /\ commands = 1
    /\ \E pf \in PullFlags : Command(pull(St, pf, [faults |-> {}, norm |-> "same"]))

NextIngress == CloneIngress \/ RemoteRewrite \/ PullIngress

SpecIngress == InitIngress /\ [][NextIngress]_vars

\* The lookup alone, in a directory of any kind.  git config holds any of
\* pr.owner, pr.repo and pr.number; the directory, or one above it, is
\* named by a number or none is; the directory above that one has a GitHub
\* remote or none; DESCRIPTION.md is absent, starts with a bare "# title"
\* or starts with a "# [owner/repo#number]" header.
DirNumber == "34"
Origin == <<"p", "q">>
ResolverConfigs ==
    [owner : {"", Item.owner}, repo : {"", Item.repo}, number : {"", Item.number},
     type : {""}, gist : {<<>>}, dir : {"", DirNumber}, origin : {<<>>, Origin}]
FirstLines == {<<>>, <<<<"h1", "T1">>>>, <<H1Ref("T1")>>}

InitResolver ==
    /\ cfg \in ResolverConfigs
    /\ wt = EmptyTree /\ head = EmptyTree /\ remote = InitialRemote
    /\ mirror = [ex |-> FALSE, content |-> <<>>] /\ nextId = 3
    /\ calls = <<>> /\ result = NoResult /\ envSteps = 0 /\ commands = 0

\* get_pr_info_from_path(): result.committed is the first line it may read,
\* result.item the triple it returns
Resolve ==
    \E first_line \in FirstLines :
        \E info \in {get_pr_info_from_path(cfg, first_line)} :
            /\ result' = [NoResult EXCEPT
                             !.cmd = "get_pr_info_from_path",
                             !.status = IF all(info) THEN "ok" ELSE "fatal",
                             !.committed = first_line,
                             !.item = [owner |-> info.owner, repo |-> info.repo,
                                       number |-> info.number]]
            /\ UNCHANGED <<wt, head, cfg, remote, mirror, nextId, calls, envSteps, commands>>

NextResolver == Resolve

SpecResolver == InitResolver /\ [][NextResolver]_vars

\* ------------------------------------------------------------------ codecs
\* The footer, description-file and comment-file functions on their own.
\* remote.body is the body text at hand, wt.desc the description file last
\* written, wt.comments the comment files written; result names the
\* function applied last, with its arguments (args) and what it returned
\* or wrote (out), and the function applied before it with its arguments
\* (prev).

\* the metadata block write_comment_file writes: the updated_at line is left
\* out when updated_at is None ("") or the same as created_at
content_lines(author, created_at, updated_at) ==
    [author |-> author, created_at |-> created_at,
     updated_at |-> IF updated_at # "" /\ updated_at # created_at THEN updated_at ELSE ""]

\* the comment file with its timestamps
TimedFile(w, created_at, updated_at) ==
    Only({[author |-> w.file.author, body |-> w.file.body,
           created_at |-> m.created_at, updated_at |-> m.updated_at] :
          m \in {content_lines(w.file.author, created_at, updated_at)}})

\* the (author, created_at, updated_at, body) read_comment_file returns
ReadTimed(file) ==
    Only({[author |-> r.author, created_at |-> file.created_at,
           updated_at |-> file.updated_at, body |-> r.body] :
          r \in {read_comment_file(file)}})

\* render_unified_diff(remote_content, local_content): what it prints.  Both
\* texts are given a final newline when they lack one and compared line by
\* line; shown is "diff" (the unified diff), "newline" (the note that only
\* the trailing newline differs) or "nothing", and indicators counts the
\* lines "\ No newline at end of file" printed after the diff.
render_unified_diff(remote_content, local_content) ==
    LET remote_has_final_newline == EndsWithNewline(remote_content)
        local_has_final_newline == EndsWithNewline(local_content)
        remote_normalized == IF remote_has_final_newline THEN remote_content
                             ELSE remote_content \o <<T("")>>
        local_normalized == IF local_has_final_newline THEN local_content
                            ELSE local_content \o <<T("")>>
    IN IF remote_normalized # local_normalized
       THEN [shown |-> "diff",
             indicators |-> (IF ~remote_has_final_newline THEN 1 ELSE 0)
                            + (IF remote_has_final_newline /\ ~local_has_final_newline
                               THEN 1 ELSE 0)]
       ELSE IF remote_has_final_newline # local_has_final_newline
       THEN [shown |-> "newline", indicators |-> 0]
       ELSE [shown |-> "nothing", indicators |-> 0]

\* bodies: empty; a word; a word followed by one, two and three newlines; a
\* word with a space before or after it, or after a newline; a body that
\* holds the link definition of the item as last line or before a newline
CodecBodies ==
    {EmptyBody,
     <<T("a")>>,
     <<T("a"), T("")>>,
     <<T("a"), T(""), T("")>>,
     <<T("a"), T(""), T(""), T("")>>,
     <<T(" a")>>,
     <<T("a ")>>,
     <<T(""), T("a")>>,
     <<T("a"), T("b")>>,
     <<T("a"), T(""), LinkDef>>,
     <<T("a"), T(""), LinkDef, T("")>>}
\* gist URLs as sync_to_gist makes them: the gist id, or the id and a revision
CodecUrls == {<<"e5">>, <<"e5", "c9">>}
CodecTitles == {"T1", "T2"}
\* timestamps; "" is None
CodecTimes == {"t1", "t2"}
MaxCodecSteps == 3

InitCodec ==
    /\ \E b \in CodecBodies : remote = [InitialRemote EXCEPT !.body = b]
    /\ wt = EmptyTree /\ head = EmptyTree
    /\ cfg = [owner |-> Item.owner, repo |-> Item.repo, number |-> Item.number,
              type |-> "pr", gist |-> <<>>, dir |-> "", origin |-> <<>>]
    /\ mirror = [ex |-> FALSE, content |-> <<>>] /\ nextId = 3
    /\ calls = <<>> /\ result = NoResult /\ envSteps = 0 /\ commands = 0

Applied(name, args, out) ==
    /\ commands < MaxCodecSteps
    /\ commands' = commands + 1
    /\ result' = [cmd |-> name, args |-> args, out |-> out,
                  prev |-> IF commands = 0 THEN [cmd |-> "none"]
                           ELSE [cmd |-> result.cmd, args |-> result.args]]
    /\ UNCHANGED <<head, cfg, mirror, nextId, calls, envSteps>>

AddFooter ==
    \E gist_url \in CodecUrls, visible \in BOOLEAN :
        \E out \in {add_gist_footer(remote.body, gist_url, visible)} :
            /\ Applied("add_gist_footer",
                       [body |-> remote.body, gist_url |-> gist_url, visible |-> visible], out)
            /\ remote' = [remote EXCEPT !.body = out]
            /\ UNCHANGED wt

ExtractFooter ==
    /\ Applied("extract_gist_footer", [body |-> remote.body], extract_gist_footer(remote.body))
    /\ UNCHANGED <<remote, wt>>

WriteDescription ==
    \E title \in CodecTitles :
        \E out \in {write_description_with_link_ref(title, remote.body)} :
            /\ Applied("write_description_with_link_ref",
                       [title |-> title, body |-> remote.body], out)
            /\ wt' = [wt EXCEPT !.desc = <<out>>]
            /\ UNCHANGED remote

ReadDescription ==
    /\ wt.desc # <<>>
    /\ Applied("read_description_file", [content |-> wt.desc[1]],
               read_description_file(wt.desc[1]))
    /\ UNCHANGED <<remote, wt>>

WriteComment ==
    \E created_at \in CodecTimes, updated_at \in CodecTimes \cup {""} :
        \E w \in {write_comment_file(1, "bob", remote.body)} :
            /\ Applied("write_comment_file",
                       [comment_id |-> 1, author |-> "bob", created_at |-> created_at,
                        updated_at |-> updated_at, body |-> remote.body],
                       w.key)
            /\ wt' = [wt EXCEPT !.comments =
                          Put(@, w.key, TimedFile(w, created_at, updated_at))]
            /\ UNCHANGED remote

ReadComment ==
    \E key \in DOMAIN wt.comments :
        /\ Applied("read_comment_file", [filepath |-> key], ReadTimed(wt.comments[key]))
        /\ UNCHANGED <<remote, wt>>

\* the body at hand is shown against a local text
RenderUnifiedDiff ==
    \E local_content \in CodecBodies :
        /\ Applied("render_unified_diff",
                   [remote_content |-> remote.body, local_content |-> local_content],
                   render_unified_diff(remote.body, local_content))
        /\ UNCHANGED <<remote, wt>>

NextCodec ==
    \/ AddFooter \/ ExtractFooter
    \/ WriteDescription \/ ReadDescription
    \/ WriteComment \/ ReadComment
    \/ RenderUnifiedDiff

SpecCodec == InitCodec /\ [][NextCodec]_vars

\* ------------------------------------------------------------------ properties
\* the step is one run of push itself (not the push at the end of pull)
RanPush == commands' = commands + 1 /\ result'.cmd = "push"
\* ... one that went through its comment loop
RanPushComments ==
    RanPush /\ result'.status = "ok" /\ ~result'.flags.dry_run /\ ~result'.flags.no_comments

\* the external calls of the last command with operation op and comment id
CallsFor(cs, op, id) == {i \in DOMAIN cs : cs[i].op = op /\ cs[i].id = id}
CallsOf(cs, op) == {i \in DOMAIN cs : cs[i].op = op}

\* how the comment loop counts: skipped are the unchanged, the not owned and
\* the orphans; pushed are the patched
SkippedKinds == {"unchanged", "not_owner", "orphan"}
Counted(r) ==
    /\ r.skipped = Cardinality({k \in DOMAIN r.disp : r.disp[k] \in SkippedKinds})
    /\ r.pushed = Cardinality({k \in DOMAIN r.disp : r.disp[k] = "patched"})

\* C1: after a push (also the one pull ends with) that is no dry run, for
\* every committed non-blank draft it posted successfully: the draft file
\* is gone from the working tree and from HEAD, exactly one comment file
\* carries the new comment's id, it is z{id}-{current user}.md, and its body
\* is the body the server returned (line endings normalized on ingress),
\* whatever the draft said.
C1_PostedDraftBecomesCanonicalFile ==
    \A i \in DOMAIN result.posted :
        LET p == result.posted[i]
        IN /\ p.draft \notin DOMAIN wt.drafts
           /\ p.draft \notin DOMAIN head.drafts
           /\ {k \in DOMAIN wt.comments : k.id = p.id} = {FileKey(p.id, CurrentUser)}
           /\ wt.comments[FileKey(p.id, CurrentUser)].author = CurrentUser
           /\ wt.comments[FileKey(p.id, CurrentUser)].body = NormalizeCRLF(p.returned)

\* a push posted a draft and the server returned another text than was sent
C1_Witness ==
    /\ result.cmd = "push" /\ result.status = "ok"
    /\ \E i \in DOMAIN result.posted :
          /\ NormalizeCRLF(result.posted[i].returned) # result.posted[i].sent
          /\ \E j \in CallsFor(calls, "post", result.posted[i].id) : calls[j].ok
          /\ FileKey(result.posted[i].id, CurrentUser) \in DOMAIN wt.comments

\* C2: when push goes through its comment loop without force-others, a
\* comment file whose recorded author is somebody else and whose body
\* differs from the remote comment of its id gets no PATCH call, is counted
\* as skipped, and every other comment file is still processed.
C2_OthersCommentNeverPatched ==
    [][RanPushComments /\ ~result'.flags.force_others =>
        \A k \in DOMAIN wt.comments :
            (/\ wt.comments[k].author \notin {"", CurrentUser}
             /\ k.id \in DOMAIN remote.comments
             /\ read_comment_file(wt.comments[k]).body
                # NormalizeCRLF(remote.comments[k.id].body))
            => /\ CallsFor(calls', "patch", k.id) = {}
               /\ remote'.comments[k.id] = remote.comments[k.id]
               /\ k \in DOMAIN result'.disp /\ result'.disp[k] \in SkippedKinds
               /\ Counted(result')
               /\ DOMAIN result'.disp = DOMAIN wt'.comments]_vars

\* a push skipped somebody else's edited comment and patched one of the
\* current user's in the same run
C2_Witness ==
    /\ result.cmd = "push" /\ result.status = "ok" /\ ~result.flags.force_others
    /\ \E k \in DOMAIN result.disp : result.disp[k] = "not_owner" /\ k.tag = "bob"
    /\ result.pushed = 1 /\ result.skipped >= 1

\* C3, for files that record their author: when push goes through its
\* comment loop, a comment file with its author line whose id is a remote
\* comment's and whose body equals that comment's body gets no PATCH call
\* and is counted under skipped, not under pushed.
C3_UnchangedCommentSkipped ==
    [][RanPushComments =>
        \A k \in DOMAIN wt.comments :
            (/\ wt.comments[k].author # ""
             /\ k.id \in DOMAIN remote.comments
             /\ read_comment_file(wt.comments[k]).body
                = NormalizeCRLF(remote.comments[k.id].body))
            => /\ CallsFor(calls', "patch", k.id) = {}
               /\ k \in DOMAIN result'.disp /\ result'.disp[k] \in SkippedKinds
               /\ result'.disp[k] # "patched"
               /\ Counted(result')]_vars

\* C3 as stated, for every comment file, with or without its author line:
\* id a remote comment's and body equal to it, so no PATCH call and counted
\* under skipped, not under pushed.
C3_AnyUnchangedCommentSkipped ==
    [][RanPushComments =>
        \A k \in DOMAIN wt.comments :
            (/\ k.id \in DOMAIN remote.comments
             /\ read_comment_file(wt.comments[k]).body
                = NormalizeCRLF(remote.comments[k.id].body))
            => /\ CallsFor(calls', "patch", k.id) = {}
               /\ k \in DOMAIN result'.disp /\ result'.disp[k] \in SkippedKinds
               /\ result'.disp[k] # "patched"
               /\ Counted(result')]_vars

\* a push found one comment file unchanged and patched another
C3_Witness ==
    /\ result.cmd = "push" /\ result.status = "ok"
    /\ \E k \in DOMAIN result.disp : result.disp[k] = "unchanged"
    /\ result.pushed = 1 /\ result.skipped >= 1

\* C4, for files that record their author: when push goes through its
\* comment loop, for a comment file with its author line whose id is no
\* remote comment's: no call carries that
\* id, every POST carries the text of a committed draft, no remote comment
\* of that id comes to exist, the file is counted as skipped and is left as
\* it was.
C4_OrphanCommentNeverCreated ==
    [][RanPushComments =>
        \A k \in DOMAIN wt.comments :
            (wt.comments[k].author # "" /\ k.id \notin DOMAIN remote.comments)
            => /\ \A i \in DOMAIN calls' : calls'[i].id # k.id
               /\ \A i \in CallsOf(calls', "post") :
                     \E d \in DOMAIN head.drafts : head.drafts[d] = calls'[i].body
               /\ k.id \notin DOMAIN remote'.comments
               /\ k \in DOMAIN result'.disp /\ result'.disp[k] = "orphan"
               /\ Counted(result')
               /\ k \in DOMAIN wt'.comments /\ wt'.comments[k] = wt.comments[k]]_vars

\* C4 as stated, for every comment file, with or without its author line:
\* id no remote comment's, so no call for it, counted as skipped, unchanged.
C4_AnyOrphanCommentSkipped ==
    [][RanPushComments =>
        \A k \in DOMAIN wt.comments :
            k.id \notin DOMAIN remote.comments
            => /\ \A i \in DOMAIN calls' : calls'[i].id # k.id
               /\ \A i \in CallsOf(calls', "post") :
                     \E d \in DOMAIN head.drafts : head.drafts[d] = calls'[i].body
               /\ k.id \notin DOMAIN remote'.comments
               /\ k \in DOMAIN result'.disp /\ result'.disp[k] \in SkippedKinds
               /\ Counted(result')
               /\ k \in DOMAIN wt'.comments /\ wt'.comments[k] = wt.comments[k]]_vars

\* a push met a comment file whose remote comment had been deleted
C4_Witness ==
    /\ result.cmd = "push" /\ result.status = "ok"
    /\ \E k \in DOMAIN result.disp :
          /\ result.disp[k] = "orphan"
          /\ k \in DOMAIN wt.comments /\ k.id \notin DOMAIN remote.comments
    /\ result.skipped >= 1

\* a push or the push at the end of a pull
Pushed == result.cmd \in {"push", "pull"}
\* the footer is wanted: not disabled, and asked for or (auto) a gist exists
FooterWanted(r) == ~r.flags.no_footer /\ (r.flags.footer >= 1 \/ r.had_gist)
\* the sync footer of a body: its URL (<<>>: none) and the body before it
FooterUrl(body) == extract_gist_footer(body).url
BeforeFooter(body) == extract_gist_footer(body).body

\* C5: everything one run of push sends is taken from HEAD: the title and
\* the body of the edit call from the committed description, every POST from
\* a committed draft, every PATCH from the committed comment file of that id.
C5_PushSendsOnlyCommittedContent ==
    [][RanPush =>
        \A i \in DOMAIN calls' :
            LET c == calls'[i]
                d == ParseDescription(NormalizeCRLF(head.desc[1]))
            IN /\ c.op = "edit" =>
                     c.title = d.title /\ BeforeFooter(c.body) = BeforeFooter(d.body)
               /\ c.op = "post" =>
                     \E n \in DOMAIN head.drafts : head.drafts[n] = c.body
               /\ c.op = "patch" =>
                     \E k \in DOMAIN head.comments :
                         k.id = c.id /\ read_comment_file(head.comments[k]).body = c.body]_vars

\* what does hold of C5: the description and the drafts are read from HEAD
C5_DescriptionAndDraftsFromHead ==
    [][RanPush =>
        \A i \in DOMAIN calls' :
            LET c == calls'[i]
                d == ParseDescription(NormalizeCRLF(head.desc[1]))
            IN /\ c.op = "edit" =>
                     c.title = d.title /\ BeforeFooter(c.body) = BeforeFooter(d.body)
               /\ c.op = "post" =>
                     \E n \in DOMAIN head.drafts : head.drafts[n] = c.body]_vars

\* a push patched a comment with a body that is in no committed file
C5_Witness ==
    /\ result.cmd = "push" /\ result.status = "ok"
    /\ \E i \in CallsOf(calls, "patch") :
          /\ calls[i].ok
          /\ \A k \in DOMAIN head.comments :
                k.id = calls[i].id => read_comment_file(head.comments[k]).body # calls[i].body

\* C6: the body push sends in its edit call carries a sync footer (after the
\* local body) exactly when the footer is not disabled and is asked for or,
\* in auto mode, a gist already exists; otherwise, so whenever the footer
\* is disabled, the body sent is the local body.
C6_FooterIffWanted ==
    Pushed =>
        \A i \in CallsOf(calls, "edit") :
            IF FooterWanted(result)
            THEN /\ FooterUrl(calls[i].body) # <<>>
                 /\ BeforeFooter(calls[i].body) = BeforeFooter(result.body)
                 /\ calls[i].body # result.body
            ELSE /\ calls[i].body = result.body
                 /\ FooterUrl(calls[i].body) = <<>>

\* a push with the footer disabled while a gist exists sent the local body
C6_Witness ==
    /\ result.cmd = "push" /\ result.status = "ok"
    /\ result.flags.no_footer /\ result.flags.footer >= 1 /\ result.had_gist
    /\ \E i \in CallsOf(calls, "edit") : calls[i].ok /\ calls[i].body = result.body

\* C7: after pull --no-footer, the body sent by the push that pull ends
\* with carries no sync footer.
C7_PullNoFooterAddsNone ==
    result.cmd = "pull" /\ result.pull.footer = "no" =>
        \A i \in CallsOf(calls, "edit") : FooterUrl(calls[i].body) = <<>>

\* C8: whenever the body sent in the edit call carries a sync footer, a
\* successful gist call went before the edit call, and the footer's URL is
\* the URL sync_to_gist returned.
C8_FooterUrlIsSyncUrl ==
    Pushed =>
        \A i \in CallsOf(calls, "edit") :
            FooterUrl(calls[i].body) # <<>> =>
                /\ \E j \in 1..(i - 1) :
                      calls[j].op \in {"gist_update", "gist_create"} /\ calls[j].ok
                /\ FooterUrl(calls[i].body) = result.sync_url

\* what does hold of C8: the sync goes first, and a hidden footer carries the
\* URL sync_to_gist returned
C8_SyncFirstAndHiddenFooterUrl ==
    Pushed =>
        \A i \in CallsOf(calls, "edit") :
            FooterUrl(calls[i].body) # <<>> =>
                /\ \E j \in 1..(i - 1) :
                      calls[j].op \in {"gist_update", "gist_create"} /\ calls[j].ok
                /\ result.flags.footer < 2 => FooterUrl(calls[i].body) = result.sync_url

\* a push sent a visible footer whose URL is not the one the sync returned
C8_Witness ==
    /\ result.cmd = "push" /\ result.status = "ok" /\ result.flags.footer = 2
    /\ \E i \in CallsOf(calls, "edit") :
          /\ calls[i].ok
          /\ FooterUrl(calls[i].body) \notin {<<>>, result.sync_url}

\* C9: when a push that is no dry run wants the footer and the gist sync
\* fails or returns no URL, the push ends with an error and has issued no
\* edit call, no POST and no PATCH.
C9_FooterWithoutUrlIsFatal ==
    (/\ Pushed /\ result.committed # <<>> /\ ~result.flags.dry_run
     /\ FooterWanted(result)
     /\ \/ result.sync_url = <<>>
        \/ \E i \in DOMAIN calls :
              calls[i].op \in {"gist_update", "gist_push", "gist_create"} /\ ~calls[i].ok)
    => /\ result.status = "raised"
       /\ \A i \in DOMAIN calls : calls[i].op \notin {"edit", "post", "patch"}

\* a push that wanted the footer met a failing gist update and stopped
C9_Witness ==
    /\ result.cmd = "push" /\ result.status = "raised" /\ FooterWanted(result)
    /\ result.sync_url = <<>>
    /\ \E i \in DOMAIN calls : calls[i].op = "gist_update" /\ ~calls[i].ok
    /\ \A i \in DOMAIN calls : calls[i].op \notin {"edit", "post", "patch"}

\* C10: a run of diff leaves the working tree, HEAD, the git config, the
\* gist and the remote item with its comments as they were.
C10_DiffWritesNothing ==
    [][commands' = commands + 1 /\ result'.cmd = "diff" =>
        UNCHANGED <<wt, head, cfg, mirror, remote, nextId>>]_vars

\* diff ran on a state where local and remote differ, in the description or
\* in a comment, and with uncommitted changes in the working tree
C10_Witness ==
    /\ result.cmd = "diff" /\ result.status = "ok"
    /\ \/ result.body_differs
       \/ \E k \in DOMAIN result.cdiff.local : result.cdiff.local[k] = "differs"
    /\ wt # head

\* C11: a push run with the dry-run flag performs no mutating call (no mirror
\* create or update, no edit of the item, no comment POST or PATCH) and leaves
\* the working tree, the committed tree, the configuration, the mirror and
\* the remote item as they were.
C11_DryRunPushWritesNothing ==
    [][RanPush /\ result'.flags.dry_run
         => /\ calls' = <<>>
            /\ UNCHANGED <<wt, head, cfg, mirror, remote, nextId>>]_vars

\* A dry-run push that had something to send: a gist to sync for the footer,
\* a body that differs from the remote one and a committed draft to post.
C11_Witness ==
    /\ result.cmd = "push" /\ result.flags.dry_run /\ result.status = "ok"
    /\ gist_requested(result.flags)
    /\ result.body_differs
    /\ draft_files(St) # <<>>

\* a step that ran one pull (its push phase included)
RanPull == commands' = commands + 1 /\ result'.cmd = "pull"

\* C12: a pull run with the dry-run flag performs no mutating call: no local
\* file is written, nothing is committed and no remote change is made.
C12_DryRunPullWritesNothing ==
    [][RanPull /\ result'.pull.dry_run
         => /\ calls' = <<>>
            /\ UNCHANGED <<wt, head, cfg, mirror, remote, nextId>>]_vars

\* What a dry-run pull does keep: it makes no remote call and no commit, and
\* it leaves the comment files and the drafts of the working tree alone.
C12_DryRunPullCommitsNothing ==
    [][RanPull /\ result'.pull.dry_run
         => /\ calls' = <<>>
            /\ UNCHANGED <<head, cfg, mirror, remote, nextId>>
            /\ wt'.comments = wt.comments /\ wt'.drafts = wt.drafts]_vars

\* A dry-run pull that found the remote description changed: it completed
\* and the description of the working tree is no longer the committed one.
C12_Witness ==
    /\ result.cmd = "pull" /\ result.pull.dry_run /\ result.status = "ok"
    /\ wt.desc # head.desc
    /\ envSteps = 1 /\ wt.comments = head.comments /\ wt.drafts = head.drafts

\* the local comment files whose id no remote comment carries
OrphanKeys == {k \in DOMAIN wt.comments :
                  get_comment_id_from_filename(k) \notin DOMAIN remote.comments}
\* the drafts that the last command posted
PostedDrafts(r) == {r.posted[i].draft : i \in DOMAIN r.posted}
Kept(f, g, k) == k \in DOMAIN g /\ g[k] = f[k]

\* C13 (as stated): after pull returns, its push included, every local
\* comment file whose id is absent remotely and every local draft still
\* exists with unchanged content.
C13_PullKeepsOrphansAndDrafts ==
    [][RanPull
         => /\ \A k \in OrphanKeys : Kept(wt.comments, wt'.comments, k)
            /\ \A d \in DOMAIN wt.drafts : Kept(wt.drafts, wt'.drafts, d)]_vars

\* C13 (amended): after pull returns, every local comment file whose id is
\* absent remotely still exists with unchanged content, and so does every
\* local draft except those that the push of the pull posted as comments.
C13_PullKeepsOrphansAndUnpostedDrafts ==
    [][RanPull
         => /\ \A k \in OrphanKeys : Kept(wt.comments, wt'.comments, k)
            /\ \A d \in DOMAIN wt.drafts \ PostedDrafts(result') :
                   Kept(wt.drafts, wt'.drafts, d)]_vars

\* A completed pull, comments included, with an orphan comment file and a
\* draft that it did not post, both still in the working tree.
C13_Witness ==
    /\ result.cmd = "pull" /\ result.status = "ok"
    /\ ~result.pull.dry_run /\ ~result.pull.no_comments
    /\ OrphanKeys # {}
    /\ DOMAIN wt.drafts # {} /\ result.posted = <<>>

\* the step is the second of two pulls in a row, after a first that completed
SecondPull == commands = 1 /\ commands' = 2 /\ result.status = "ok"

\* C14: when pull is run twice in a row with nothing changed in between, the
\* second run completes without error, creates no commit, changes no local
\* file and leaves the remote title, body and comments as the first left them.
C14_SecondPullChangesNothing ==
    [][SecondPull
         => /\ result'.status = "ok"
            /\ head' = head /\ wt' = wt
            /\ remote' = remote]_vars

\* Two pulls in a row were run to their end, and neither was a dry run.
C14_Witness ==
    /\ commands = 2 /\ result.cmd = "pull" /\ result.status = "ok"
    /\ ~result.pull.dry_run

\* a pull that was no dry run, fetched the comments and ran to its end
RanPullComments ==
    RanPull /\ ~result'.pull.dry_run /\ ~result'.pull.no_comments /\ result'.status = "ok"
\* the local comment files that carry comment id
FilesOf(tree, id) == {k \in DOMAIN tree.comments : get_comment_id_from_filename(k) = id}
\* the body the API answers for remote comment id
FetchedBody(rem, id) == NormalizeCRLF(rem.comments[id].body)

GistUrls == {<<"a1">>, <<"a1", "c9">>}
\* body b as it is and with each sync footer that add_gist_footer makes
FooterForms(b) == {b} \cup {add_gist_footer(b, u, v) : u \in GistUrls, v \in BOOLEAN}
\* two bodies that are one text, each with or without a sync footer
DifferOnlyByFooter(l, r) ==
    \E k \in 1..Len(l) : l \in FooterForms(SubSeq(l, 1, k)) /\ r \in FooterForms(SubSeq(l, 1, k))
\* the step is a diff, or the preview of a dry-run push, that ran to its end
Compared ==
    /\ commands' = commands + 1 /\ result'.status = "ok"
    /\ \/ result'.cmd = "diff"
       \/ result'.cmd \in {"push", "pull"} /\ result'.flags.dry_run

\* C16: diff and the preview of a dry-run push compare the local and the
\* remote description body with the sync footer stripped from both: when the
\* committed body and the fetched body differ only by the presence or the
\* content of a sync footer, no body difference is reported.
C16_FooterNeverCountsAsDifference ==
    [][Compared /\ DifferOnlyByFooter(result'.body, get_item_metadata(St).body)
         => ~result'.body_differs]_vars

\* What does hold: the same, for diff and for every preview that did not
\* make its footer from the placeholder URL of a gist that is yet to be
\* created.
C16_FooterOfKnownGistNeverCounts ==
    [][Compared /\ DifferOnlyByFooter(result'.body, get_item_metadata(St).body)
                /\ result'.sync_url # <<"NEW_GIST">>
         => ~result'.body_differs]_vars

\* A diff found the bodies equal although the remote one carries a footer
\* that the committed one lacks.
C16_Witness ==
    /\ result.cmd = "diff" /\ result.status = "ok" /\ ~result.body_differs
    /\ FooterUrl(result.body) = <<>>
    /\ FooterUrl(get_item_metadata(St).body) # <<>>

\* the step is a push, or the push of a pull, that sent its edit call
SentEdit ==
    /\ commands' = commands + 1 /\ result'.cmd \in {"push", "pull"}
    /\ CallsOf(calls', "edit") # {}

\* C17: the title and the body that push sends in its edit call are the
\* (title, body) that read_description_file returns for the committed
\* description file, the body before the sync footer push may add.
C17_SentIsWhatCodecReads ==
    [][SentEdit
         => \A i \in CallsOf(calls', "edit") :
               LET rd == read_description_file(result'.committed)
               IN /\ rd.ok
                  /\ calls'[i].title = rd.title
                  /\ BeforeFooter(calls'[i].body) = rd.body]_vars

\* What does hold: the title sent is the title read, and the body sent,
\* once its link-definition lines are taken out and it is right-trimmed, is
\* the body read.
C17_SentIsWhatCodecReadsButLinkDefs ==
    [][SentEdit
         => \A i \in CallsOf(calls', "edit") :
               LET rd == read_description_file(result'.committed)
               IN /\ rd.ok
                  /\ calls'[i].title = rd.title
                  /\ RStripBody(SelectSeq(BeforeFooter(calls'[i].body),
                                          LAMBDA line : line # LinkDef)) = rd.body]_vars

\* A push sent the committed description, which ends with its
\* link-definition line, and a footer after it.
C17_Witness ==
    /\ result.cmd = "push" /\ result.status = "ok"
    /\ \E i \in CallsOf(calls, "edit") :
          /\ calls[i].ok /\ FooterUrl(calls[i].body) # <<>>
          /\ result.committed[Len(result.committed) - 1] = LinkDef

\* the step is one run of clone
RanClone == commands' = commands + 1 /\ result'.cmd = "clone"

\* C18: clone refuses to run when its target directory already exists: it
\* ends with an error, makes no call, and creates, overwrites or modifies
\* nothing inside the directory (nor anything else).
C18_CloneRefusesExistingDirectory ==
    [][RanClone /\ (wt # EmptyTree \/ cfg.type # "")
         => /\ result'.status = "fatal"
            /\ calls' = <<>>
            /\ UNCHANGED <<wt, head, cfg, mirror, remote, nextId>>]_vars

\* A clone was refused over a directory that holds the files of an earlier
\* clone, other than those this clone would have written.
C18_Witness ==
    /\ result.cmd = "clone" /\ result.status = "fatal"
    /\ wt.desc # <<>> /\ DOMAIN wt.comments # {}
    /\ remote.comments = <<>> /\ FooterUrl(remote.body) # <<>>

\* a clone that was asked for a gist, of an item whose body carries a footer,
\* and that ran to its end
ClonedWithFooter ==
    RanClone /\ result'.status = "ok" /\ result'.flags.gist /\ FooterUrl(remote.body) # <<>>
\* the clone kept the body without its footer, bound the gist the footer
\* names and created none
ReusedMirror ==
    /\ wt'.desc = <<write_description_with_link_ref(remote.title, BeforeFooter(remote.body))>>
    /\ head'.desc = wt'.desc
    /\ FooterUrl(ParseDescription(wt'.desc[1]).body) = <<>>
    /\ cfg'.gist = <<FooterUrl(remote.body)[1]>>
    /\ CallsOf(calls', "gist_create") = {}
    /\ remote' = remote

\* C19: when the fetched body carries a sync footer, clone stores the body
\* without the footer and reuses the gist the footer names: pr.gist is that
\* gist and no gist is created.
C19_CloneReusesFooterMirror ==
    [][ClonedWithFooter => ReusedMirror]_vars

\* What does hold: the same, when the id in the footer is 20 to 32
\* hexadecimal characters long.
C19_CloneReusesFooterMirrorOfFullId ==
    [][ClonedWithFooter /\ GIST_ID_PATTERN(FooterUrl(remote.body)) # <<>>
         => ReusedMirror]_vars

\* A clone of an item whose footer names a gist with its revision: the gist
\* is bound and pushed to, and the description is stored without footer.
C19_Witness ==
    /\ result.cmd = "clone" /\ result.status = "ok"
    /\ FooterUrl(remote.body) = <<"e5", "c9">>
    /\ cfg.gist = <<"e5">> /\ mirror.content = head.desc
    /\ head.desc # <<>> /\ FooterUrl(ParseDescription(head.desc[1]).body) = <<>>

\* a call of the first gist attempt of clone failed
MirrorAttemptFailed(cs) ==
    \E i \in DOMAIN cs : cs[i].op \in {"gist_create", "gist_fetch", "gist_push"} /\ ~cs[i].ok

\* C20: when creating the gist, fetching from it or pushing to it fails
\* during clone, clone only warns: it does not fail, the description and
\* the configuration of the clone are kept, and the comments are
\* materialized.
C20_CloneSurvivesMirrorFailure ==
    [][RanClone /\ MirrorAttemptFailed(calls')
         => /\ result'.status = "ok"
            /\ wt'.desc # <<>> /\ head'.desc = wt'.desc /\ cfg'.type = "pr"
            /\ (~result'.flags.no_comments
                 => \A id \in DOMAIN remote.comments : FilesOf(wt', id) # {})]_vars

\* What does hold after a failed gist attempt: the description is written
\* and committed and the configuration is kept.
C20_CloneKeepsDescriptionOnMirrorFailure ==
    [][RanClone /\ MirrorAttemptFailed(calls')
         => /\ wt'.desc # <<>> /\ head'.desc = wt'.desc /\ cfg'.type = "pr"]_vars

\* The push to the gist failed during the clone of an item with comments.
C20_Witness ==
    /\ result.cmd = "clone" /\ ~result.flags.no_comments
    /\ MirrorAttemptFailed(calls)
    /\ DOMAIN remote.comments # {}
    /\ head.desc # <<>>
\* the step is one run of a command in a tree whose owner, repo and number
\* get_pr_info_from_path does not find
RanUnresolved ==
    /\ commands' = commands + 1
    /\ ~all(get_pr_info_from_path(cfg, description_md(St)))
NothingDone ==
    /\ \A i \in DOMAIN calls' : ~calls'[i].ok
    /\ UNCHANGED <<wt, head, cfg, mirror, remote, nextId>>

\* C21: when owner, repo and number cannot be resolved, push, pull and diff
\* end with a fatal error, and no call of theirs has succeeded and nothing
\* has changed in the working tree, in HEAD, in the git config, on the gist
\* or on the item.
C21_UnresolvedAbortsBeforeMutation ==
    [][RanUnresolved => result'.status = "fatal" /\ NothingDone]_vars

\* the part of C21 that pull and diff keep
C21_UnresolvedPullDiffAbort ==
    [][RanUnresolved /\ result'.cmd \in {"pull", "diff"}
         => result'.status = "fatal" /\ calls' = <<>> /\ NothingDone]_vars

\* a push in a tree without owner, repo and number has created a gist
C21_Witness ==
    /\ result.cmd = "push" /\ ~all(result.item) /\ commands = 1
    /\ \E i \in DOMAIN calls : calls[i].op = "gist_create" /\ calls[i].ok
    /\ mirror.ex /\ cfg.gist # <<>> /\ wt.other # {}

\* the step is one run of a command that knows owner, repo and number and
\* whose lookup of the item, as a PR and as an issue, finds nothing
RanUnfound ==
    /\ commands' = commands + 1
    /\ all(result'.item) /\ ~result'.found

\* C22: when neither lookup finds the item, diff and push end with a fatal
\* error at that point: no call is made after it and nothing is changed.
C22_UnfoundIsFatal ==
    [][RanUnfound /\ result'.cmd \in {"push", "diff"}
         => result'.status = "fatal" /\ calls' = <<>> /\ NothingDone]_vars

\* the part of C22 that diff and pull keep
C22_UnfoundDiffPullFatal ==
    [][RanUnfound /\ result'.cmd \in {"pull", "diff"}
         => result'.status = "fatal" /\ calls' = <<>> /\ NothingDone]_vars

\* a push whose lookup found nothing has edited the item all the same
C22_Witness ==
    /\ result.cmd = "push" /\ all(result.item) /\ ~result.found /\ commands = 1
    /\ result.status = "ok"
    /\ \E i \in DOMAIN calls : calls[i].op = "edit" /\ calls[i].ok

\* the calls of the last command to post or patch a comment that failed
FailedCommentCalls(cs) == {i \in DOMAIN cs : cs[i].op \in {"post", "patch"} /\ ~cs[i].ok}

\* after a failed post or patch the loops of push went on: every committed
\* non-blank draft was sent, every comment file got its decision, and what
\* the calls that succeeded changed is kept on the remote and in the tree
LoopWentOn ==
    /\ Cardinality(CallsOf(calls', "post"))
       = Cardinality({d \in DOMAIN head.drafts : RStripBody(head.drafts[d]) # EmptyBody})
    /\ DOMAIN result'.disp = DOMAIN wt'.comments
    /\ \A i \in CallsOf(calls', "patch") :
          calls'[i].ok => remote'.comments[calls'[i].id].body = calls'[i].body
    /\ \A i \in CallsOf(calls', "post") :
          calls'[i].ok => /\ calls'[i].id \in DOMAIN remote'.comments
                          /\ FileKey(calls'[i].id, CurrentUser) \in DOMAIN wt'.comments
                          /\ FileKey(calls'[i].id, CurrentUser) \in DOMAIN head'.comments

\* C23: when a post or a patch of one comment fails during push, the loop
\* goes on with the remaining files, what was done for earlier comments is
\* kept, and the comment whose patch failed is counted in the summary
\* (pushed plus skipped covers it).
C23_FailedCommentCounted ==
    [][RanPushComments /\ FailedCommentCalls(calls') # {}
         => /\ LoopWentOn
            /\ result'.pushed + result'.skipped
               >= Cardinality({k \in DOMAIN result'.disp :
                                 result'.disp[k] \in SkippedKinds \cup {"patched", "patch_failed"}})]_vars

\* the part of C23 that push keeps: the loop goes on and keeps what was done
C23_FailureDoesNotStopLoop ==
    [][RanPushComments /\ FailedCommentCalls(calls') # {} => LoopWentOn]_vars

\* a push failed to patch one comment file and patched a later one
C23_Witness ==
    /\ result.cmd = "push" /\ result.status = "ok"
    /\ \E k, k2 \in DOMAIN result.disp :
          /\ result.disp[k] = "patch_failed" /\ result.disp[k2] = "patched"
          /\ FileRank(k) < FileRank(k2)
          /\ CallsFor(calls, "patch", k.id) # {}
          /\ remote.comments[k2.id].body = read_comment_file(wt.comments[k2]).body

FromStore == [owner |-> cfg.owner, repo |-> cfg.repo, number |-> cfg.number]
FromDirectory ==
    IF cfg.dir # "" /\ cfg.origin # <<>>
    THEN [owner |-> cfg.origin[1], repo |-> cfg.origin[2], number |-> cfg.dir]
    ELSE NoItem
FromDescription ==
    IF result.committed # <<>> /\ result.committed[1][1] = "h1ref" THEN Item ELSE NoItem
FirstComplete ==
    IF all(FromStore) THEN FromStore
    ELSE IF all(FromDirectory) THEN FromDirectory
    ELSE FromDescription
Resolved == result.cmd = "get_pr_info_from_path"

\* C25: the lookup returns the first complete owner, repo and number in the
\* order git config, directory name with remote, description file, and
\* fails only when none of the three yields all of them.
C25_FirstCompleteSourceWins ==
    Resolved =>
        IF all(FirstComplete) THEN result.item = FirstComplete
        ELSE ~all(result.item)

\* the part of C25 that holds: a complete answer is the first complete one
\* of the three sources, and git config, when complete, is the answer
C25_CompleteAnswerIsFirstSource ==
    Resolved =>
        /\ all(result.item) => result.item = FirstComplete
        /\ all(FromStore) => result.item = FromStore

\* a directory named by a number without a GitHub remote above it, and a
\* description file that names the item: the lookup has failed
C25_Witness ==
    /\ Resolved
    /\ ~all(FromStore) /\ cfg.dir # "" /\ cfg.origin = <<>>
    /\ all(FromDescription)
    /\ ~all(result.item) /\ result.status = "fatal"

\* a footer was added and then extracted
AddedThenExtracted ==
    /\ result.cmd = "extract_gist_footer"
    /\ result.prev.cmd = "add_gist_footer"

\* C26: for every body that does not end in a footer, every gist URL and
\* both kinds of footer, extracting the footer just added gives back the
\* body and the URL.
C26_FooterRoundTrip ==
    AddedThenExtracted /\ extract_gist_footer(result.prev.args.body).url = <<>>
    => /\ result.out.body = result.prev.args.body
       /\ result.out.url = result.prev.args.gist_url

\* the part of C26 that holds: a hidden footer gives back the URL, a visible
\* one does for a URL without revision, and the body comes back
\* right-trimmed
C26_FooterRoundTripTrimmed ==
    AddedThenExtracted /\ extract_gist_footer(result.prev.args.body).url = <<>>
    => /\ result.out.body = RStripBody(result.prev.args.body)
       /\ ~result.prev.args.visible \/ Len(result.prev.args.gist_url) = 1
             => result.out.url = result.prev.args.gist_url

\* a visible footer for a URL with a revision was added to a body without
\* footer or trailing whitespace and then extracted: the revision comes
\* back as the gist
C26_Witness ==
    /\ AddedThenExtracted
    /\ result.prev.args.body = <<T("a")>>
    /\ result.prev.args.visible /\ result.prev.args.gist_url = <<"e5", "c9">>
    /\ result.out.body = <<T("a")>>
    /\ result.out.url = <<"c9">>

\* the same footer was added twice in a row
AddedTwice ==
    /\ result.cmd = "add_gist_footer"
    /\ result.prev.cmd = "add_gist_footer"
    /\ result.prev.args.gist_url = result.args.gist_url
    /\ result.prev.args.visible = result.args.visible

\* the number of sync footer lines in a body
FooterLines(body) == Cardinality({i \in 1..Len(body) : body[i][1] \in {"vis", "hid"}})

WrittenThenRead ==
    /\ result.cmd = "read_description_file"
    /\ result.prev.cmd = "write_description_with_link_ref"

\* C28: reading a description file after writing it returns the title and
\* the body that were written, whatever number of newlines the body ends in
\* and whether or not it holds the link definition of the item.
C28_DescriptionRoundTrip ==
    WrittenThenRead =>
        /\ result.out.ok
        /\ result.out.title = result.prev.args.title
        /\ result.out.body = result.prev.args.body

\* the part of C28 that holds: the title comes back, and so does a body
\* without link definition that neither starts nor ends in whitespace
C28_TrimmedDescriptionRoundTrip ==
    WrittenThenRead =>
        /\ result.out.ok
        /\ result.out.title = result.prev.args.title
        /\ (/\ \A i \in 1..Len(result.prev.args.body) : result.prev.args.body[i] # LinkDef
            /\ RStripBody(result.prev.args.body) = result.prev.args.body
            /\ ~IsBlankLine(result.prev.args.body[1]) \/ result.prev.args.body = EmptyBody)
           => result.out.body = result.prev.args.body

\* the body "a" followed by one newline was written and read back as "a"
C28_Witness ==
    /\ WrittenThenRead
    /\ result.prev.args.body = <<T("a"), T("")>>
    /\ result.args.content = <<H1Ref(result.prev.args.title), T(""), T("a"), T(""), LinkDef, T("")>>
    /\ result.out.body = <<T("a")>>

\* a body that holds the link definition was written and read back without it
C28_LinkDefinitionLost ==
    /\ WrittenThenRead
    /\ result.prev.args.body = <<T("a"), T(""), LinkDef>>
    /\ result.out.body = <<T("a")>>

\* the number of link-definition lines of the item in a text
LinkDefLines(text) == Cardinality({i \in 1..Len(text) : text[i] = LinkDef})
\* the file text goes on, after the header and a blank line, with the body:
\* all its lines but the last as they are, and the last one as the start
\* of a line
BodyKept(body, text) ==
    /\ SubSeq(text, 3, Len(body) + 1) = SubSeq(body, 1, Len(body) - 1)
    /\ body[Len(body)] = T("") \/ text[Len(body) + 2] = body[Len(body)]
DescriptionWritten == result.cmd = "write_description_with_link_ref"

\* C29: the description file just written holds exactly one link-definition
\* line of the item: appended, after a blank line, when the body has none,
\* and the body's own when it has one.
C29_OneLinkDefinition ==
    DescriptionWritten /\ LinkDefLines(result.args.body) <= 1 =>
        /\ LinkDefLines(result.out) = 1
        /\ LinkDefLines(result.args.body) = 0 =>
              /\ SubSeq(result.out, Len(result.out) - 2, Len(result.out))
                    = <<T(""), LinkDef, T("")>>
              /\ result.args.body # EmptyBody =>
                    BodyKept(result.args.body, result.out)
        /\ LinkDefLines(result.args.body) = 1 =>
              result.out = <<H1Ref(result.args.title), T("")>> \o result.args.body

\* a body that ends in its own link definition was written: the file ends
\* in that line and holds no other
C29_Witness ==
    /\ DescriptionWritten
    /\ result.args.body = <<T("a"), T(""), LinkDef>>
    /\ wt.desc = <<result.out>>
    /\ LinkDefLines(result.out) = 1
    /\ result.out[Len(result.out)] = LinkDef

\* bodies ending in no, one and two newlines were written: one link
\* definition was appended
C29_WitnessAppended ==
    /\ DescriptionWritten
    /\ result.args.body \in {<<T("a")>>, <<T("a"), T("")>>, <<T("a"), T(""), T("")>>}
    /\ result.out = <<H1Ref(result.args.title), T(""), T("a"), T(""), LinkDef, T("")>>

\* a comment file was written and then read
CommentWrittenThenRead ==
    /\ result.cmd = "read_comment_file"
    /\ result.prev.cmd = "write_comment_file"
    /\ result.args.filepath = FileKey(result.prev.args.comment_id, result.prev.args.author)

\* C30: reading a comment file after writing it returns the author, the
\* created_at and the body that were written, and as updated_at the one
\* written when it differs from created_at and created_at otherwise.
C30_CommentRoundTrip ==
    CommentWrittenThenRead =>
        /\ result.out.author = result.prev.args.author
        /\ result.out.created_at = result.prev.args.created_at
        /\ result.out.body = result.prev.args.body
        /\ result.out.updated_at =
              IF result.prev.args.updated_at \notin {"", result.prev.args.created_at}
              THEN result.prev.args.updated_at
              ELSE result.prev.args.created_at

\* the part of C30 that holds: author and created_at come back; updated_at
\* comes back when it differs from created_at and is None otherwise; the
\* body comes back without its leading whitespace
C30_CommentRoundTripStripped ==
    CommentWrittenThenRead =>
        /\ result.out.author = result.prev.args.author
        /\ result.out.created_at = result.prev.args.created_at
        /\ result.out.body = LStripBody(result.prev.args.body)
        /\ result.out.updated_at =
              IF result.prev.args.updated_at \notin {"", result.prev.args.created_at}
              THEN result.prev.args.updated_at
              ELSE ""

\* a body that starts with a space was written, with an updated_at that
\* differs from created_at, and read back without the space
C30_Witness ==
    /\ CommentWrittenThenRead
    /\ result.prev.args.body = <<T(" a")>>
    /\ result.prev.args.updated_at \notin {"", result.prev.args.created_at}
    /\ result.out.updated_at = result.prev.args.updated_at
    /\ result.out.body = <<T("a")>>

\* a comment that was never edited was written and read back without
\* updated_at
C30_NoUpdatedAt ==
    /\ CommentWrittenThenRead
    /\ result.prev.args.updated_at = result.prev.args.created_at
    /\ result.out.body = result.prev.args.body
    /\ result.out.updated_at = ""

\* a text holds a carriage return followed by a line feed
HasCRLF(text) ==
    \E i \in 1..(Len(text) - 1) : text[i] \in {T("a\r"), T("a\r\r")}
\* a text holds two carriage returns followed by a line feed
HasCRCRLF(text) ==
    \E i \in 1..(Len(text) - 1) : text[i] = T("a\r\r")
\* the texts a clone or pull has stored: the description file and the
\* bodies of the comment files
StoredTexts == {wt.desc[i] : i \in 1..Len(wt.desc)}
               \cup {wt.comments[k].body : k \in DOMAIN wt.comments}
Ingested == result.cmd \in {"clone", "pull"} /\ result.status # "fatal"

\* C31: what clone and pull store of the remote body and of the remote
\* comments holds no CRLF, and normalizing it once more changes nothing.
C31_StoredWithoutCRLF ==
    Ingested =>
        \A text \in StoredTexts :
            /\ ~HasCRLF(text)
            /\ NormalizeCRLF(text) = text

\* the part of C31 that holds: the comment file holds the normalized body of
\* the remote comment; and a remote text without two carriage returns before
\* a line feed is stored without CRLF, unchanged by another normalization
\* (for the body: by a clone without gist, which leaves the remote as read)
C31_SingleCRLFNormalized ==
    Ingested /\ (result.cmd = "pull" \/ envSteps = 0) =>
        /\ \A k \in DOMAIN wt.comments :
              k.id \in DOMAIN remote.comments
              /\ (result.cmd = "clone"
                    \/ (k.id \in result.fetched /\ ~result.pull.dry_run)) =>
                  /\ wt.comments[k].body = NormalizeCRLF(remote.comments[k.id].body)
                  /\ ~HasCRCRLF(remote.comments[k.id].body) =>
                        /\ ~HasCRLF(wt.comments[k].body)
                        /\ NormalizeCRLF(wt.comments[k].body) = wt.comments[k].body
        /\ result.cmd = "clone" /\ ~result.flags.gist /\ ~HasCRCRLF(remote.body) =>
              \A i \in 1..Len(wt.desc) : ~HasCRLF(wt.desc[i])

\* a remote comment with two carriage returns before a line feed was cloned:
\* its file holds a CRLF
C31_Witness ==
    /\ result.cmd = "clone" /\ result.status = "ok"
    /\ remote.comments[2].body = <<T("a\r\r"), T("b")>>
    /\ wt.comments[FileKey(2, "bob")].body = <<T("a\r"), T("b")>>
    /\ remote.body = <<T("a\r"), T("b")>>
    /\ ~HasCRLF(wt.desc[1])

\* diff went through the comments, every call succeeding
DiffedComments ==
    /\ result.cmd = "diff" /\ result.status = "ok" /\ ~result.flags.no_comments
LocalIds == {get_comment_id_from_filename(k) : k \in DOMAIN wt.comments}

\* C32: diff reports every remote comment without local file as remote
\* only, every local comment file unknown remotely as local only, and every
\* other comment file as changed or unchanged, with any number of local
\* comment files.
C32_DiffReportsEveryComment ==
    DiffedComments =>
        /\ result.cdiff.remote_only = DOMAIN remote.comments \ LocalIds
        /\ DOMAIN result.cdiff.local = DOMAIN wt.comments
        /\ \A k \in DOMAIN wt.comments :
              IF get_comment_id_from_filename(k) \in DOMAIN remote.comments
              THEN result.cdiff.local[k] \in {"differs", "same"}
              ELSE result.cdiff.local[k] = "local_only"

\* the part of C32 that holds: every local comment file gets its status, and
\* the remote comments without local file are reported when there is at
\* least one local comment file
C32_DiffReportsCommentsBesideLocalFiles ==
    DiffedComments =>
        /\ DOMAIN wt.comments # {} =>
              result.cdiff.remote_only = DOMAIN remote.comments \ LocalIds
        /\ DOMAIN result.cdiff.local = DOMAIN wt.comments
        /\ \A k \in DOMAIN wt.comments :
              IF get_comment_id_from_filename(k) \in DOMAIN remote.comments
              THEN result.cdiff.local[k] \in {"differs", "same"}
              ELSE result.cdiff.local[k] = "local_only"

\* diff ran in a clone made without comment files of an item with two
\* comments, and reported none of them
C32_Witness ==
    /\ DiffedComments
    /\ DOMAIN wt.comments = {}
    /\ DOMAIN remote.comments = {1, 2}
    /\ result.cdiff.remote_only = {}

\* a unified diff with content differences was shown
DiffShown == result.cmd = "render_unified_diff" /\ result.out.shown = "diff"

\* C33: after a unified diff with content differences the indicator "No
\* newline at end of file" is shown if and only if exactly one of the two
\* texts lacks a trailing newline.
C33_IndicatorIffOneSideLacksNewline ==
    DiffShown =>
        (result.out.indicators > 0
            <=> EndsWithNewline(result.args.remote_content)
                    # EndsWithNewline(result.args.local_content))

\* the part of C33 that holds: the indicator is shown, once, unless both
\* texts end in a newline
C33_IndicatorUnlessBothHaveNewline ==
    DiffShown =>
        result.out.indicators =
            IF EndsWithNewline(result.args.remote_content)
               /\ EndsWithNewline(result.args.local_content)
            THEN 0 ELSE 1

\* two texts without trailing newline that differ were shown: the indicator
\* was printed
C33_Witness ==
    /\ DiffShown
    /\ result.args.remote_content = <<T("a")>>
    /\ result.args.local_content = <<T("a"), T("b")>>
    /\ result.out.indicators = 1

\* the step of the second of two pushes in a row
PushedAgain == result.cmd = "push" /\ result'.cmd = "push" /\ commands' = 2

\* C34: a draft file posted by one push is not posted again by the next
\* push, also when the first push failed after the post and before the
\* commit of the rename.
C34_NoDraftPostedTwice ==
    [][PushedAgain =>
        \A i \in DOMAIN result.posted, j \in DOMAIN result'.posted :
            result.posted[i].draft # result'.posted[j].draft]_vars

\* the part of C34 that holds: a push that ended without exception has
\* committed the removal of the drafts it posted, and the next push posts
\* none of them; and no push posts a draft file twice
C34_NoDraftPostedTwiceAfterCommit ==
    [][PushedAgain =>
        /\ result.status # "raised" =>
              \A i \in DOMAIN result.posted, j \in DOMAIN result'.posted :
                  result.posted[i].draft # result'.posted[j].draft
        /\ \A i, j \in DOMAIN result'.posted :
              result'.posted[i].draft = result'.posted[j].draft => i = j]_vars

\* the second push has posted a draft whose content the first push, which
\* failed at the commit, had posted already: the item has both comments
C34_Witness ==
    /\ commands = 2 /\ result.cmd = "push" /\ result.status = "ok"
    /\ Len(result.posted) = 1
    /\ result.posted[1].id = 4
    /\ 3 \in DOMAIN remote.comments
    /\ remote.comments[3] = remote.comments[4]
    /\ remote.comments[4].body = result.posted[1].sent
    /\ FileKey(3, CurrentUser) \in DOMAIN wt.comments


\* ------------------------------------------------------------------ C35
\* the names of the comment files of the working tree that a patch call of
\* the last command may be about
CommentFileIds == {get_comment_id_from_filename(k) : k \in DOMAIN wt.comments}

PushRan == commands' = commands + 1 /\ result'.cmd = "push"

\* C35: a push never posts the description file as a new comment, patches
\* only comments that have a comment file, and never removes the description
\* file from the working tree or from HEAD, whatever the repository is called.
C35_DescriptionNeverPostedOrRemoved ==
    [][PushRan =>
         /\ \A i \in 1..Len(result'.posted) : result'.posted[i].draft # DescriptionDraft
         /\ \A i \in 1..Len(calls') :
               calls'[i].op = "patch" => calls'[i].id \in CommentFileIds
         /\ wt.desc # <<>> => wt'.desc # <<>>
         /\ head.desc # <<>> => head'.desc # <<>>]_vars

\* C35, the part that holds: in a tree of a repository whose name does not
\* start with 'new' a push posts only new*.md drafts, patches only comments
\* that have a comment file, and leaves the description file where it is.
C35_DescriptionKeptUnlessNamedNew ==
    [][PushRan /\ cfg.repo # NewRepo =>
         /\ \A i \in 1..Len(result'.posted) :
               result'.posted[i].draft \in {DraftNames[j] : j \in 1..Len(DraftNames)}
         /\ \A i \in 1..Len(calls') :
               calls'[i].op = "patch" => calls'[i].id \in CommentFileIds
         /\ wt.desc # <<>> => wt'.desc # <<>>
         /\ head.desc # <<>> => head'.desc # <<>>]_vars

\* a push in a tree of the repository newr posted newr#12.md as a comment and
\* removed it
C35_Witness ==
    /\ result.cmd = "push" /\ result.status = "ok" /\ cfg.repo = NewRepo
    /\ \E i \in 1..Len(result.posted) :
          /\ result.posted[i].draft = DescriptionDraft
          /\ result.posted[i].id \in DOMAIN remote.comments
          /\ remote.comments[result.posted[i].id].body = result.posted[i].sent
    /\ wt.desc = <<>> /\ head.desc = <<>>


\* ------------------------------------------------------------------ C36
\* the remote item, a comment of it, was changed by somebody else since the
\* clone the tree comes from (no command has run since)
ItemChangedRemotely == commands = 0 /\ remote.body \in RemoteBodies
CommentChangedRemotely(id) ==
    commands = 0 /\ id \in DOMAIN remote.comments
    /\ remote.comments[id].body \in RemoteCommentBodies

\* C36: a push replaces no remote body and no remote comment that was changed
\* remotely since the tree was last synchronized, unless it reports the
\* difference.
C36_UnseenRemoteChangeKept ==
    [][PushRan =>
         /\ ItemChangedRemotely =>
               remote'.body = remote.body \/ result'.body_differs
         /\ \A id \in DOMAIN remote.comments :
               CommentChangedRemotely(id) =>
                  \/ id \in DOMAIN remote'.comments
                     /\ remote'.comments[id].body = remote.comments[id].body
                  \/ \E k \in DOMAIN result'.cdiff.local :
                        get_comment_id_from_filename(k) = id
                        /\ result'.cdiff.local[k] = "differs"]_vars

\* C36, the part that holds: a dry run changes nothing of the remote item,
\* and without --force-others no push changes a comment of another author.
C36_DryRunAndOthersCommentsKept ==
    [][PushRan =>
         /\ result'.flags.dry_run => remote' = remote
         /\ \A id \in DOMAIN remote.comments :
               ~result'.flags.force_others /\ remote.comments[id].author # CurrentUser
                  => /\ id \in DOMAIN remote'.comments
                     /\ remote'.comments[id] = remote.comments[id]]_vars

\* one remote change and no local one since the clone, then a push that was
\* no dry run: it patched comment 1 back to what the comment file holds
C36_Witness ==
    /\ result.cmd = "push" /\ result.status = "ok" /\ ~result.flags.dry_run
    /\ envSteps = 1 /\ wt = head /\ result.posted = <<>>
    /\ \E i \in 1..Len(calls) :
          /\ calls[i] = Call("patch", TRUE, 1, "", <<T("a")>>)
          /\ remote.comments[1].body = <<T("a")>>
    /\ result.cdiff = NoCommentDiff /\ ~result.body_differs


\* ------------------------------------------------------------------ C37
\* the push that has just run called sync_to_gist (push.py 124-134)
GistSynced(r) ==
    /\ ~r.flags.dry_run
    /\ gist_requested(r.flags) \/ should_add_footer(r.flags, r.had_gist)
    /\ gist_requested(r.flags) \/ r.had_gist

\* C37: a push changes the description file neither in the working tree nor
\* in HEAD, and writes no other file than the comment files of the drafts it
\* posted.
C37_PushKeepsDescription ==
    [][PushRan =>
         /\ wt'.desc = wt.desc /\ head'.desc = head.desc /\ wt'.other = wt.other
         /\ result'.posted = <<>> => wt' = wt /\ head' = head]_vars

\* C37, the part that holds: a push that does not sync the gist changes the
\* description file neither in the working tree nor in HEAD, and changes no
\* local file at all when it posts no draft.
C37_PushKeepsDescriptionWithoutGistSync ==
    [][PushRan /\ ~GistSynced(result') =>
         /\ wt'.desc = wt.desc /\ head'.desc = head.desc /\ wt'.other = wt.other
         /\ result'.posted = <<>> => wt' = wt /\ head' = head]_vars

\* the user edited the description and did not commit; a push with an
\* existing gist has committed the edit
C37_Witness ==
    /\ result.cmd = "push" /\ result.status = "ok" /\ result.had_gist
    /\ envSteps = 1 /\ result.posted = <<>>
    /\ wt.desc # <<>> /\ wt.desc[1] \in UserDescriptions
    /\ head.desc = wt.desc
    /\ result.committed # head.desc[1]


\* ------------------------------------------------------------------ C38
\* a clone with --no-gist has just run and went past its first checks (the
\* item was fetched, the target directory did not exist)
ClonedWithoutGist ==
    result.cmd = "clone" /\ ~result.flags.gist /\ result.status # "fatal"

\* what such a clone leaves: the description file, committed, the binding,
\* the comment files of the remote comments unless --no-comments (none when
\* the comments could not be fetched), no gist, no call that creates a gist
\* or edits the item
CloneWithoutGistEffects ==
    /\ wt.desc # <<>> /\ head.desc = wt.desc
    /\ cfg.owner = Item.owner /\ cfg.repo = Item.repo /\ cfg.number = Item.number
    /\ cfg.gist = <<>> /\ mirror.content = <<>> /\ calls = <<>>
    /\ remote.body \in CloneBodies
    /\ head.comments = wt.comments
    /\ result.flags.no_comments => wt.comments = <<>>
    /\ \/ wt.comments = <<>>
       \/ /\ {get_comment_id_from_filename(k) : k \in DOMAIN wt.comments}
             = DOMAIN remote.comments
          /\ \A k \in DOMAIN wt.comments :
                wt.comments[k].author = remote.comments[k.id].author

\* C38: a clone with --no-gist of an item that can be fetched ends
\* successfully, having written the description file, the binding and the
\* comment files, with no gist created and the remote item not edited.
C38_CloneWithoutGistSucceeds ==
    ClonedWithoutGist => result.status = "ok" /\ CloneWithoutGistEffects

\* C38, the part that holds: the files, the binding and the untouched remote
\* are as described, whatever the way the clone ended.
C38_CloneWithoutGistWritesTree ==
    ClonedWithoutGist => CloneWithoutGistEffects

\* a clone with --no-gist of an item with two comments wrote everything and
\* ended in an exception
C38_Witness ==
    /\ ClonedWithoutGist /\ result.status = "raised"
    /\ ~result.flags.no_comments
    /\ CloneWithoutGistEffects
    /\ Cardinality(DOMAIN wt.comments) = 2


\* ------------------------------------------------------------------ C39
\* a diff has just run right after a clone that ended well
DiffRanAfterClone ==
    /\ result.cmd = "clone" /\ result.status = "ok"
    /\ commands' = commands + 1 /\ result'.cmd = "diff"

\* C39: a diff that follows a successful clone, with no edit on either side
\* in between, reports no title difference and no body difference.
C39_DiffAfterCloneIsClean ==
    [][DiffRanAfterClone => ~result'.title_differs /\ ~result'.body_differs]_vars


\* C39, the part that holds: such a diff reports no title difference, and
\* the body it read from the description file is the remote body (footers
\* apart) followed by a blank line and the link definition clone wrote.
C39_DiffAfterCloneDiffersByLinkDefinition ==
    [][DiffRanAfterClone =>
         /\ result'.status = "ok" /\ ~result'.title_differs
         /\ extract_gist_footer(result'.body).body
            = extract_gist_footer(RStripBody(NormalizeCRLF(remote.body))).body
              \o <<T(""), LinkDef>>]_vars

\* a clone that created the gist and put its footer on the item, then a
\* diff: it reports a body difference
C39_Witness ==
    /\ commands = 2 /\ result.cmd = "diff" /\ result.status = "ok"
    /\ cfg.gist = <<NewGistId>>
    /\ remote.body = add_gist_footer(<<T("a")>>, <<NewGistId>>, FALSE)
    /\ wt = head
    /\ result.body_differs /\ ~result.title_differs


\* ------------------------------------------------------------------ C40
\* a diff has just run right after a push that was no dry run and ended well
DiffRanAfterPush ==
    /\ result.cmd = "push" /\ result.status = "ok" /\ ~result.flags.dry_run
    /\ commands' = commands + 1 /\ result'.cmd = "diff"

\* C40: a diff that follows a successful push that was no dry run, with no
\* edit on either side in between, reports no title difference and no body
\* difference.
C40_DiffAfterPushIsClean ==
    [][DiffRanAfterPush => ~result'.title_differs /\ ~result'.body_differs]_vars


\* C40, the part that holds: when HEAD still holds the description the push
\* read and sent (the gist sync committed nothing new), the diff that
\* follows reports no title difference and no body difference.
C40_DiffAfterPushIsCleanUnlessSyncCommitted ==
    [][DiffRanAfterPush /\ head.desc # <<>>
       /\ NormalizeCRLF(head.desc[1]) = result.committed
         => result'.status = "ok" /\ ~result'.title_differs /\ ~result'.body_differs]_vars

\* a push with an existing gist sent the committed description and its gist
\* sync committed the user's uncommitted edit; the diff that follows reports
\* a body difference
C40_Witness ==
    /\ commands = 2 /\ result.cmd = "diff" /\ result.status = "ok"
    /\ envSteps = 1 /\ wt = head /\ head.desc[1] \in UserDescriptions
    /\ cfg.gist # <<>>
    /\ result.body_differs
====
